---- MODULE Spec2Model ----
(***************************************************************************)
(* State-machine model of the audio/vibration engine:                      *)
(*   AudioAnalyzer        (src/js/audio-analyzer.js)                       *)
(*   VibrationController  (src/js/vibration-controller.js)                 *)
(*   AudioVibrateApp      (src/unnamed/part_003)                           *)
(*                                                                         *)
(* Numbers.  JavaScript numbers are doubles; the model uses exact          *)
(* arithmetic.  Times are integer milliseconds.  Energies are integers in  *)
(* units of 1/EScale, levels (bass, treble, volume, strength) in units of  *)
(* 1/LScale.  Quotients the code keeps as doubles (average, variance,      *)
(* strength, confidence, latency means) are exact rationals [n, d].        *)
(* Floating-point rounding is modelled only in SpecStats, for the average  *)
(* and variance of a full window, with a short significand.                *)
(***************************************************************************)
EXTENDS Integers, Sequences, FiniteSets, TLC

\* ------------------------------------------------------------------ bounds
\* Date.now() at page load: any value larger than every interval the code
\* compares against (the real value is about 1.7e12).
StartTime == 1000
\* Number of detectBeat calls explored by SpecBeat and by SpecTempo.
MaxTicks == 5
MaxTempoTicks == 6
\* detectBeat calls in SpecIntervals: enough to overflow the interval list.
MaxIntervalTicks == 24
\* Frames read in SpecSpectrum.
MaxSpectrumReads == 2
\* Window length used by SpecBeat and SpecTempo in place of the shipped 43, so
\* that a full window is reached within MaxTicks (beatDetection.historySize is
\* a field of the analyzer's state; SpecScenario runs with 43).
SmallHistory == 2
\* Milliseconds of controller time explored by SpecSched, and the number of
\* timer callbacks that may be pending at once.
SchedHorizon == 40
MaxTimers == 2
\* Milliseconds of controller time explored by SpecSync.
SyncHorizon == 200
\* requestAnimationFrame ids handed out, and play() calls in flight, in SpecApp.
MaxFrames == 4
MaxPlays == 1
\* SpecPage: play() calls in flight, frame ids handed out, resume callbacks pending
MaxPagePlays == 2
MaxPageFrames == 4
MaxResumeTimers == 2
\* How long SpecPreset, SpecRate, SpecPattern, SpecLatency and SpecSwitch run, in
\* milliseconds.
PresetHorizon == 200
RateHorizon == 240
PatternHorizon == 400
LatencyHorizon == 400
SwitchHorizon == 60
\* SpecStats: the window length in place of 43, and the significand width of
\* the binary floating-point format in place of the 53 bits of a double.
StatsWindow == 3
MantissaBits == 4

\* ------------------------------------------------------- program constants
EScale == 10
DefaultHistorySize == 43
DefaultMinBeatInterval == 300
\* beatDetection.threshold = 1.3 and the kick factor 0.8, in tenths
ThresholdTenths == 13
KickFactorTenths == 8
\* variance floor 0.01 = 1 / VarianceFloorInv
VarianceFloorInv == 100
MaxBeatInterval == 2000
MaxIntervals == 20
MinIntervalsForBpm == 4
MinBpm == 60
MaxBpm == 200
MsPerMinute == 60000
LScale == 100
DefaultMinInterval == 20
DefaultMaxDuration == 800
DefaultBeatDuration == 200
DefaultIntensityMultiplier == 4
\* config.frequencyThreshold = 0.15, in units of 1/LScale
DefaultFrequencyThreshold == 15
DefaultCompensation == 20
MinPulse == 10
\* the rate limit of the design document, patterns per second
MaxPatternsPerSecond == 10
MaxLatencySamples == 20
MinLatencySamples == 10
MaxCompensation == 50
FallbackLatency == 20
\* analyserNode.frequencyBinCount = fftSize / 2, and the sample rate
BinCount == 1024
AudioSampleRate == 44100
ByteMax == 255
\* frequencyAnalysis.bassRange, midRange, trebleRange, in Hz
BassRange == <<20, 250>>
MidRange == <<250, 4000>>
TrebleRange == <<4000, 20000>>
\* the upper limit of the loop of analyzeFrequency, and the flux range, in Hz
AnalysisMaxFreq == 5000
FluxLowFreq == 20
FluxHighFreq == 4000
FrequencyQuietMs == 150
VolumeQuietMs == 200
\* thresholds of the detectors and handlers, in units of 1/LScale
BassDelta == 30
BassFloor == 50
TrebleDelta == 40
TrebleFloor == 60
VolumeDelta == 30
VolumeFloor == 70
VolumePulseFloor == 80
VolumePulseMs == 150
MinFrequencyDuration == 50
\* strength tiers 0.8 and 0.5, in tenths
StrongTenths == 8
MediumTenths == 5
FastBeatMs == 400
FastBeatOn == 80

\* ---------------------------------------------------------------- helpers
RECURSIVE GCD(_, _)
GCD(a, b) == IF b = 0 THEN a ELSE GCD(b, a % b)

\* A rational n/d with d >= 0; d = 0 and n = 1 is +Infinity (x/0 for x > 0).
Rat(n, d) ==
    IF d = 0 THEN [n |-> 1, d |-> 0]
    ELSE IF n = 0 THEN [n |-> 0, d |-> 1]
    ELSE LET g == GCD(IF n < 0 THEN -n ELSE n, d) IN [n |-> n \div g, d |-> d \div g]

RZero == [n |-> 0, d |-> 1]
ROne == [n |-> 1, d |-> 1]
RLess(a, b) == a.n * b.d < b.n * a.d
RMax(a, b) == IF RLess(a, b) THEN b ELSE a
RMin(a, b) == IF RLess(b, a) THEN b ELSE a

RInt(x) == [n |-> x, d |-> 1]
RSub(a, b) == Rat(a.n * b.d - b.n * a.d, a.d * b.d)
RAdd(a, b) == Rat(a.n * b.d + b.n * a.d, a.d * b.d)
\* the integer part of a / 1, as setTimeout and WebIDL conversions take it
RFloor(a) == a.n \div a.d

Range(s) == {s[i] : i \in 1..Len(s)}

\* Math.min of two integers
Min2(x, y) == IF x < y THEN x ELSE y

RECURSIVE SumSeq(_)
SumSeq(s) == IF s = <<>> THEN 0 ELSE Head(s) + SumSeq(Tail(s))

RECURSIVE SumSqDev(_, _, _)
\* sum over s of (n*v - total)^2: n^2 times the code's sum of (v - average)^2
SumSqDev(s, n, total) ==
    IF s = <<>> THEN 0
    ELSE (n * Head(s) - total) * (n * Head(s) - total) + SumSqDev(Tail(s), n, total)

RECURSIVE Insert(_, _)
Insert(x, s) ==
    IF s = <<>> THEN <<x>>
    ELSE IF x <= Head(s) THEN <<x>> \o s
    ELSE <<Head(s)>> \o Insert(x, Tail(s))

RECURSIVE SortAscending(_)
\* [...a].sort((a, b) => a - b)
SortAscending(s) == IF s = <<>> THEN <<>> ELSE Insert(Head(s), SortAscending(Tail(s)))

\* Math.round(num / den) for num >= 0, den > 0 (halves round up)
RoundDiv(num, den) == (2 * num + den) \div (2 * den)

\* ---------------------------------------------- binary floating point
\* JavaScript's + - * / on numbers round the exact result to the nearest
\* value with a MantissaBits-bit significand, ties to even.  The exponent
\* range is not modelled (no overflow or underflow).
RECURSIVE Pow2(_)
Pow2(k) == IF k = 0 THEN 1 ELSE 2 * Pow2(k - 1)

\* n / d rounded to the nearest integer, ties to even, for n >= 0 and d > 0
RoundHalfEven(n, d) ==
    LET q == n \div d
        r == n - q * d
    IN IF 2 * r > d THEN q + 1
       ELSE IF 2 * r < d THEN q
       ELSE q + (q % 2)

RECURSIVE RoundPositive(_, _)
\* n / d >= 0 rounded to MantissaBits significant bits
RoundPositive(n, d) ==
    IF n = 0 THEN RZero
    ELSE IF n >= d * Pow2(MantissaBits)
    THEN LET r == RoundPositive(n, 2 * d) IN Rat(2 * r.n, r.d)
    ELSE IF n < d * Pow2(MantissaBits - 1)
    THEN LET r == RoundPositive(2 * n, d) IN Rat(r.n, 2 * r.d)
    ELSE RInt(RoundHalfEven(n, d))

RoundDouble(a) ==
    IF a.n < 0
    THEN LET r == RoundPositive(-a.n, a.d) IN [n |-> -r.n, d |-> r.d]
    ELSE RoundPositive(a.n, a.d)

DAdd(a, b) == RoundDouble(RAdd(a, b))
DSub(a, b) == RoundDouble(RSub(a, b))
DMul(a, b) == RoundDouble(Rat(a.n * b.n, a.d * b.d))
DDiv(a, k) == RoundDouble(Rat(a.n, a.d * k))

RECURSIVE DSum(_, _)
\* energyHistory.reduce((a, b) => a + b, 0), from the left
DSum(s, acc) == IF s = <<>> THEN acc ELSE DSum(Tail(s), DAdd(acc, RInt(Head(s))))

RECURSIVE DSumSqDev(_, _, _)
\* energyHistory.reduce((sum, value) => sum + Math.pow(value - average, 2), 0)
DSumSqDev(s, average, acc) ==
    IF s = <<>> THEN acc
    ELSE LET dev == DSub(RInt(Head(s)), average)
         IN DSumSqDev(Tail(s), average, DAdd(acc, DMul(dev, dev)))

\* ------------------------------------------------- frequency buffers
\* A frame is what getByteFrequencyData writes: BinCount bytes, bin i of the
\* code at index i + 1.  Band levels and the flux are exact rationals.
Bin(data, i) == data[i + 1]

\* new Uint8Array(bufferLength)
ZeroFrame == [i \in 1..BinCount |-> 0]

\* frequency >= range[0] && frequency <= range[1] for frequency = i * binSize,
\* binSize = sampleRate / (2 * binCount)
InRange(i, range) ==
    /\ i * AudioSampleRate >= range[1] * 2 * BinCount
    /\ i * AudioSampleRate <= range[2] * 2 * BinCount

\* the if / else if chain of analyzeFrequency
BandOf(i) ==
    IF InRange(i, BassRange) THEN "bass"
    ELSE IF InRange(i, MidRange) THEN "mid"
    ELSE IF InRange(i, TrebleRange) THEN "treble"
    ELSE "none"

\* Math.floor(maxFreq * binCount / (sampleRate / 2)), maxFreq = Math.min(5000, sampleRate / 2)
MaxBin ==
    LET twiceMaxFreq == Min2(2 * AnalysisMaxFreq, AudioSampleRate)
    IN (twiceMaxFreq * BinCount) \div AudioSampleRate

RECURSIVE BandSum(_, _, _, _)
\* the sum (in bytes) and the count of the bins from i up to last that fall
\* in band; the range is halved so that the evaluation stays shallow
BandSum(data, band, i, last) ==
    IF i > last THEN [sum |-> 0, count |-> 0]
    ELSE IF i = last
    THEN (IF BandOf(i) = band THEN [sum |-> Bin(data, i), count |-> 1]
          ELSE [sum |-> 0, count |-> 0])
    ELSE LET half == (i + last) \div 2
             lower == BandSum(data, band, i, half)
             upper == BandSum(data, band, half + 1, last)
         IN [sum |-> lower.sum + upper.sum, count |-> lower.count + upper.count]

\* bassCount > 0 ? bassSum / bassCount : 0, over for (i = 1; i < maxBin; i++)
BandLevel(data, band) ==
    LET t == BandSum(data, band, 1, MaxBin - 1)
    IN IF t.count > 0 THEN Rat(t.sum, ByteMax * t.count) ELSE RZero

\* analyzeFrequency(): the three band levels
AnalyzeFrequency(data) ==
    [bass |-> BandLevel(data, "bass"), mid |-> BandLevel(data, "mid"),
     treble |-> BandLevel(data, "treble")]

RECURSIVE PositiveDiffs(_, _, _, _)
\* the loop of calculateSpectralFlux from bin i up to last, in bytes; the
\* range is halved so that the evaluation stays shallow
PositiveDiffs(current, previous, i, last) ==
    IF i > last THEN 0
    ELSE IF i = last
    THEN LET diff == Bin(current, i) - Bin(previous, i)
         IN IF diff > 0 THEN diff ELSE 0
    ELSE LET half == (i + last) \div 2
         IN PositiveDiffs(current, previous, i, half)
            + PositiveDiffs(current, previous, half + 1, last)

\* calculateSpectralFlux()
CalculateSpectralFlux(current, previous) ==
    LET startBin == (2 * FluxLowFreq * Len(current)) \div AudioSampleRate
        endBin == (2 * FluxHighFreq * Len(current)) \div AudioSampleRate
        last == Min2(endBin, Len(current)) - 1
    IN Rat(PositiveDiffs(current, previous, startBin, last), ByteMax * (endBin - startBin))

\* the buffers before init(), and the results of no tick
NoSpectrum ==
    [frequencyData |-> <<>>, previousFrequencyData |-> <<>>, lastFrame |-> <<>>,
     frequency |-> [bass |-> RZero, mid |-> RZero, treble |-> RZero],
     flux |-> RZero, reads |-> 0]

\* initBuffers()
InitBuffers ==
    [NoSpectrum EXCEPT !.frequencyData = ZeroFrame, !.previousFrequencyData = ZeroFrame,
                       !.lastFrame = ZeroFrame]

\* getAnalysisData() as far as the frequency buffers go: getByteFrequencyData
\* delivers frame, analyzeFrequency(), updateHistory(), calculateSpectralFlux().
\* lastFrame keeps the frame the tick before this one read.
ReadSpectrum(sp, frame) ==
    LET previous == frame
    IN [frequencyData |-> frame,
        previousFrequencyData |-> previous,
        lastFrame |-> sp.frequencyData,
        frequency |-> AnalyzeFrequency(frame),
        flux |-> CalculateSpectralFlux(frame, previous),
        reads |-> sp.reads + 1]

\* ------------------------------------------------------------------ state
VARIABLES
    clock,              \* Date.now() as of the last read
    beatDetection,      \* AudioAnalyzer.beatDetection
    beatIntervals,      \* AudioAnalyzer.beatIntervals ([] when undefined)
    lastBeatTimestamp,  \* AudioAnalyzer.lastBeatTimestamp (0 when undefined)
    beat,               \* the BeatEvent returned by the last detectBeat call
    beatAt,             \* currentTime of the last detectBeat call
    ticks,              \* number of detectBeat calls so far
    lastDetectAt,       \* currentTime of the last call that returned detected=true
    nDetected,          \* number of calls that returned detected=true
    pushed,             \* whether the last call pushed a sample into energyHistory
    bpmCalled,          \* whether the last call called estimateBPM
    spectrum,           \* AudioAnalyzer.buffers and what the last tick computed from them
    vc,                 \* the VibrationController's fields
    timers,             \* pending setTimeout callbacks, in creation order
    act,                \* what the last operation did with vibrate() and the actuator
    lastAcceptAt,       \* time of the last pattern navigator.vibrate accepted
    playingUntil,       \* time at which the actuator ends the pattern it plays
    lastOp,             \* the last controller operation
    audio,              \* the argument of the last processAudioData call
    prevAudio,          \* the frequency and volume given to the call before it
    app                 \* AudioVibrateApp: state, audioAnalyzer, analysisLoopId, callbacks

analyzerVars == <<beatDetection, beatIntervals, lastBeatTimestamp, beat, beatAt,
                  ticks, lastDetectAt, nDetected, pushed, bpmCalled, spectrum>>

controllerVars == <<vc, timers, act, lastAcceptAt, playingUntil, lastOp, audio, prevAudio>>

vars == <<clock, analyzerVars, controllerVars, app>>

\* --------------------------------------------------------- AudioAnalyzer
NoBeatEvent ==
    [detected |-> FALSE, strength |-> RZero, bpm |-> 0, confidence |-> RZero,
     type |-> "none"]

InitBeatDetection(size) ==
    [threshold |-> ThresholdTenths, minInterval |-> DefaultMinBeatInterval,
     lastBeatTime |-> 0, energyHistory |-> <<>>, historySize |-> size,
     variance |-> RZero, average |-> RZero]

\* the push without the shift
PushEnergyNoShift(h, e, size) == Append(h, e)

\* energyHistory.push(currentEnergy); if (length > historySize) shift()
PushEnergy(h, e, size) ==
    LET h1 == Append(h, e) IN IF Len(h1) > size THEN Tail(h1) ELSE h1

\* average and variance (in energy units) after the push
UpdateStats(bd, h) ==
    IF Len(h) >= bd.historySize
    THEN LET n == Len(h)
             total == SumSeq(h)
         IN [bd EXCEPT !.energyHistory = h,
                       !.average = Rat(total, n),
                       !.variance = Rat(SumSqDev(h, n, total), n * n * n)]
    ELSE [bd EXCEPT !.energyHistory = h]

\* sum / length with the length one short
MeanDoubleShort(h) == DDiv(DSum(h, RZero), Len(h) - 1)

\* sum / energyHistory.length as the doubles give it
MeanDouble(h) == DDiv(DSum(h, RZero), Len(h))

\* the sum of squared deviations divided by energyHistory.length
VarianceDouble(h, average) == DDiv(DSumSqDev(h, average, RZero), Len(h))

\* the average and variance block of detectBeat in floating point; the
\* samples of h are floating-point values in units of a power of two
UpdateStatsDouble(bd, h) ==
    IF Len(h) >= bd.historySize
    THEN [bd EXCEPT !.energyHistory = h,
                    !.average = MeanDouble(h),
                    !.variance = VarianceDouble(h, MeanDouble(h))]
    ELSE [bd EXCEPT !.energyHistory = h]

\* currentEnergy > average * threshold && variance > 0.01
EnergyBeat(bd, e) ==
    /\ 10 * e * bd.average.d > bd.threshold * bd.average.n
    /\ VarianceFloorInv * bd.variance.n > bd.variance.d * EScale * EScale

\* the decision without its kick-band half
KickBeatNever(bd, k) == FALSE

\* kickEnergy > average * 0.8
KickBeat(bd, k) == 10 * k * bd.average.d > KickFactorTenths * bd.average.n

\* (x - t) / t for t = average * tenths / 10
Excess(bd, x, tenths) ==
    Rat(10 * x * bd.average.d - tenths * bd.average.n, tenths * bd.average.n)

\* Math.max(60, Math.min(200, bpm)) without its lower bound
ClampBpmUpperOnly(bpm) == IF bpm > MaxBpm THEN MaxBpm ELSE bpm

\* Math.max(60, Math.min(200, bpm))
ClampBpm(bpm) ==
    LET hi == IF bpm > MaxBpm THEN MaxBpm ELSE bpm
    IN IF hi < MinBpm THEN MinBpm ELSE hi

\* the length test with the bound one too low
EnoughIntervalsOffByOne(n) == n >= MinIntervalsForBpm - 1

\* beatIntervals.length >= 4
EnoughIntervals(n) == n >= MinIntervalsForBpm

\* the interval list left to grow
KeepEveryInterval(appended) == appended

\* if (this.beatIntervals.length > 20) this.beatIntervals.shift()
KeepRecentIntervals(appended) ==
    IF Len(appended) > MaxIntervals THEN Tail(appended) ELSE appended

\* estimateBPM() called at Date.now() = now
EstimateBPM(intervals, lastTs, minInterval, now) ==
    LET interval == now - lastTs
        accepted == /\ lastTs # 0
                    /\ interval >= minInterval
                    /\ interval <= MaxBeatInterval
        appended == IF accepted THEN Append(intervals, interval) ELSE intervals
        kept == KeepRecentIntervals(appended)
        n == Len(kept)
        sorted == SortAscending(kept)
        median == sorted[(n \div 2) + 1]
        total == SumSeq(kept)
        \* finalInterval = median*0.7 + avg*0.3 = (7*median*n + 3*total) / (10*n)
        raw == RoundDiv(MsPerMinute * 10 * n, 7 * median * n + 3 * total)
        bpm == IF EnoughIntervals(n) THEN ClampBpm(raw) ELSE 0
    IN [intervals |-> kept, lastTs |-> now, bpm |-> bpm]

\* the min-interval test left out
InCooldownNever(bd, now) == FALSE

\* the min-interval test at the top of detectBeat
InCooldown(bd, now) == now - bd.lastBeatTime < bd.minInterval

\* the type ternary with its branches exchanged
BeatTypeSwapped(energyBeat, kickBeat) == IF kickBeat THEN "energy" ELSE "kick"

\* type: kickBeat ? 'kick' : 'energy'
BeatType(energyBeat, kickBeat) == IF kickBeat THEN "kick" ELSE "energy"

\* detectBeat() with Date.now() = now and calculateEnergy() = (e, k).  The
\* Date.now() read inside estimateBPM happens in the same synchronous call and
\* is taken to return the same millisecond.  Returns the new analyzer fields,
\* the BeatEvent (its energy and kickEnergy fields, which no consumer reads,
\* are left out), and which side effects happened.
DetectBeat(bd, intervals, lastTs, now, e, k) ==
    IF InCooldown(bd, now)
    THEN [bd |-> bd, intervals |-> intervals, lastTs |-> lastTs,
          event |-> NoBeatEvent, pushed |-> FALSE, bpmCalled |-> FALSE]
    ELSE
        LET bd1 == UpdateStats(bd, PushEnergy(bd.energyHistory, e, bd.historySize))
            energyBeat == EnergyBeat(bd1, e)
            kickBeat == KickBeat(bd1, k)
        IN IF energyBeat \/ kickBeat
           THEN LET est == EstimateBPM(intervals, lastTs, bd1.minInterval, now)
                    es == IF energyBeat THEN Excess(bd1, e, bd1.threshold) ELSE RZero
                    ks == IF kickBeat THEN Excess(bd1, k, KickFactorTenths) ELSE RZero
                    \* variance * 10, variance in real units
                    conf == Rat(10 * bd1.variance.n, bd1.variance.d * EScale * EScale)
                IN [bd |-> [bd1 EXCEPT !.lastBeatTime = now],
                    intervals |-> est.intervals, lastTs |-> est.lastTs,
                    event |-> [detected |-> TRUE,
                               strength |-> RMin(RMax(es, ks), ROne),
                               bpm |-> est.bpm,
                               confidence |-> RMin(conf, ROne),
                               type |-> BeatType(energyBeat, kickBeat)],
                    pushed |-> TRUE, bpmCalled |-> TRUE]
           ELSE [bd |-> bd1, intervals |-> intervals, lastTs |-> lastTs,
                 event |-> NoBeatEvent, pushed |-> TRUE, bpmCalled |-> FALSE]

\* One detectBeat call dt ms after the last clock read.
DetectBeatCall(dt, e, k) ==
    LET now == clock + dt
        r == DetectBeat(beatDetection, beatIntervals, lastBeatTimestamp, now, e, k)
    IN /\ clock' = now
       /\ beatDetection' = r.bd
       /\ beatIntervals' = r.intervals
       /\ lastBeatTimestamp' = r.lastTs
       /\ beat' = r.event
       /\ beatAt' = now
       /\ ticks' = ticks + 1
       /\ lastDetectAt' = IF r.event.detected THEN now ELSE lastDetectAt
       /\ nDetected' = IF r.event.detected THEN nDetected + 1 ELSE nDetected
       /\ pushed' = r.pushed
       /\ bpmCalled' = r.bpmCalled
       /\ spectrum' = spectrum
       /\ UNCHANGED <<controllerVars, app>>

AnalyzerInit(size) ==
    /\ clock = StartTime
    /\ beatDetection = InitBeatDetection(size)
    /\ beatIntervals = <<>>
    /\ lastBeatTimestamp = 0
    /\ beat = NoBeatEvent
    /\ beatAt = 0
    /\ ticks = 0
    /\ lastDetectAt = 0
    /\ nDetected = 0
    /\ pushed = FALSE
    /\ bpmCalled = FALSE
    /\ spectrum = NoSpectrum

\* --------------------------------------------------- VibrationController
\* Levels (bass, treble, volume level) are integers in units of 1/LScale.
\* A pattern is a sequence of durations in ms; what navigator.vibrate is
\* given is a sequence of rationals, since the compensation may be a mean.
NoFrequency == [set |-> FALSE, bass |-> 0, treble |-> 0]
NoVolume == [set |-> FALSE, level |-> 0]

InitConfig ==
    [minInterval |-> DefaultMinInterval, maxDuration |-> DefaultMaxDuration,
     beatVibrationDuration |-> DefaultBeatDuration,
     intensityMultiplier |-> DefaultIntensityMultiplier,
     frequencyThreshold |-> DefaultFrequencyThreshold,
     adaptiveSync |-> TRUE, latencyCompensation |-> RInt(DefaultCompensation)]

patterns ==
    [beat |-> <<200, 50>>, strongBeat |-> <<350, 50>>, bass |-> <<400, 80>>,
     continuous |-> <<100, 30>>, pulse |-> <<150, 80, 150, 120>>]

\* the constructor; lastFrequencyData and lastVolumeData start undefined
InitController(supported) ==
    [isSupported |-> supported, isEnabled |-> FALSE, lastVibrationTime |-> 0,
     isVibrating |-> FALSE, config |-> InitConfig,
     syncState |-> [avgLatency |-> RZero, latencyHistory |-> <<>>],
     lastFrequencyData |-> NoFrequency, lastVolumeData |-> NoVolume]

\* what an operation that never reaches vibrate() leaves in act.  afterStop
\* tells that the call before this one was stopVibration(); overStop that the
\* callback which made the attempt was pending when stopVibration() ran and
\* overDisable that it was pending when disable() ran;
\* attempts counts the vibrate() calls the operation made.
Idle ==
    [attempted |-> FALSE, attempts |-> 0, source |-> "none", requested |-> <<>>, handed |-> FALSE,
     accepted |-> FALSE, sent |-> <<>>, result |-> FALSE, stopSent |-> FALSE,
     freqChange |-> FALSE, volChange |-> FALSE, afterStop |-> FALSE,
     overStop |-> FALSE, overDisable |-> FALSE]

ToRats(pattern) == [i \in 1..Len(pattern) |-> RInt(pattern[i])]

\* applyLatencyCompensation(pattern) for an array pattern
ApplyLatencyCompensation(cfg, pattern) ==
    IF ~cfg.adaptiveSync \/ cfg.latencyCompensation = RZero
    THEN ToRats(pattern)
    ELSE IF Len(pattern) > 0
         THEN [ToRats(pattern) EXCEPT
                  ![1] = RMax(RInt(MinPulse), RSub(RInt(pattern[1]), cfg.latencyCompensation))]
         ELSE <<>>

RECURSIVE SumOnDurations(_, _)
\* reduce((sum, val, index) => index % 2 === 0 ? sum + val : sum, 0)
SumOnDurations(sent, i) ==
    IF i > Len(sent) THEN RZero
    ELSE IF i % 2 = 1 THEN RAdd(sent[i], SumOnDurations(sent, i + 1))
    ELSE SumOnDurations(sent, i + 1)

\* updateSyncStats that adapts the compensation from the first sample on
UpdateSyncStatsEager(c, latency) ==
    LET h == Append(c.syncState.latencyHistory, latency)
        avg == Rat(SumSeq(h), Len(h))
    IN [c EXCEPT !.syncState = [avgLatency |-> avg, latencyHistory |-> h],
                 !.config.latencyCompensation = RMin(RInt(MaxCompensation), RMax(RZero, avg))]

\* updateSyncStats that never shifts the oldest sample out
UpdateSyncStatsKeepsAll(c, latency) ==
    LET h == Append(c.syncState.latencyHistory, latency)
        avg == Rat(SumSeq(h), Len(h))
        comp == IF c.config.adaptiveSync /\ Len(h) >= MinLatencySamples
                THEN RMin(RInt(MaxCompensation), RMax(RZero, avg))
                ELSE c.config.latencyCompensation
    IN [c EXCEPT !.syncState = [avgLatency |-> avg, latencyHistory |-> h],
                 !.config.latencyCompensation = comp]

\* updateSyncStats: latency is the measured performance.now() difference
UpdateSyncStats(c, latency) ==
    LET pushedH == Append(c.syncState.latencyHistory, latency)
        h == IF Len(pushedH) > MaxLatencySamples THEN Tail(pushedH) ELSE pushedH
        avg == Rat(SumSeq(h), Len(h))
        comp == IF c.config.adaptiveSync /\ Len(h) >= MinLatencySamples
                THEN RMin(RInt(MaxCompensation), RMax(RZero, avg))
                ELSE c.config.latencyCompensation
    IN [c EXCEPT !.syncState = [avgLatency |-> avg, latencyHistory |-> h],
                 !.config.latencyCompensation = comp]

\* the first guard of vibrate() without its isEnabled half
BlockedWhenUnsupported(c) == ~c.isSupported

\* !this.isSupported || !this.isEnabled
Blocked(c) == ~c.isSupported \/ ~c.isEnabled

\* the interval test with the comparison dropped
RateLimitedNever(c, now) == FALSE

\* now - this.lastVibrationTime < this.config.minInterval
RateLimited(c, now) == now - c.lastVibrationTime < c.config.minInterval

\* vibrate(pattern) that sets lastVibrationTime and isVibrating before it
\* looks at what navigator.vibrate returned
VibrateStampsFirst(c, tm, now, source, pattern, ok, latency) ==
    LET tried == [Idle EXCEPT !.attempted = TRUE, !.attempts = 1, !.source = source,
                              !.requested = pattern]
        sent == ApplyLatencyCompensation(c.config, pattern)
        handed == [tried EXCEPT !.handed = TRUE, !.sent = sent]
        stamped == [c EXCEPT !.lastVibrationTime = now, !.isVibrating = TRUE]
    IN IF Blocked(c) \/ RateLimited(c, now)
       THEN [vc |-> c, timers |-> tm, act |-> tried]
       ELSE IF ok
       THEN [vc |-> UpdateSyncStats(stamped, latency),
             timers |-> Append(tm, [kind |-> "end",
                                    due |-> now + RFloor(SumOnDurations(sent, 1)),
                                    pattern |-> <<>>, seenStop |-> FALSE,
                                    seenDisable |-> FALSE]),
             act |-> [handed EXCEPT !.accepted = TRUE, !.result = TRUE]]
       ELSE [vc |-> stamped, timers |-> tm, act |-> handed]

\* vibrate(pattern) at Date.now() = now; ok is what navigator.vibrate
\* returns and latency the time it took.  Returns the controller, the timer
\* queue and the record of what happened.
Vibrate(c, tm, now, source, pattern, ok, latency) ==
    LET tried == [Idle EXCEPT !.attempted = TRUE, !.attempts = 1, !.source = source,
                              !.requested = pattern]
    IN IF Blocked(c)
       THEN [vc |-> c, timers |-> tm, act |-> tried]
       ELSE IF RateLimited(c, now)
       THEN [vc |-> c, timers |-> tm, act |-> tried]
       ELSE LET sent == ApplyLatencyCompensation(c.config, pattern)
                handed == [tried EXCEPT !.handed = TRUE, !.sent = sent]
            IN IF ok
               THEN [vc |-> UpdateSyncStats(
                                [c EXCEPT !.lastVibrationTime = now,
                                          !.isVibrating = TRUE], latency),
                     timers |-> Append(tm, [kind |-> "end",
                                            due |-> now + RFloor(SumOnDurations(sent, 1)),
                                            pattern |-> <<>>, seenStop |-> FALSE,
                                    seenDisable |-> FALSE]),
                     act |-> [handed EXCEPT !.accepted = TRUE, !.result = TRUE]]
               ELSE [vc |-> c, timers |-> tm, act |-> handed]

\* predictiveVibrate(pattern, audioTimestamp) at performance.now() = now
PredictiveVibrate(c, tm, now, pattern, audioTimestamp, ok, latency) ==
    LET predictedDelay == IF c.syncState.avgLatency = RZero
                          THEN RInt(FallbackLatency) ELSE c.syncState.avgLatency
        delay == RMax(RZero, RSub(RInt(audioTimestamp - now), predictedDelay))
    IN IF audioTimestamp <= now
       THEN Vibrate(c, tm, now, "direct", pattern, ok, latency)
       ELSE [vc |-> c,
             timers |-> Append(tm, [kind |-> "vibrate", due |-> now + RFloor(delay),
                                    pattern |-> pattern, seenStop |-> FALSE,
                                    seenDisable |-> FALSE]),
             act |-> [Idle EXCEPT !.result = TRUE]]

\* stopVibration() that moves the rate limiter's reference time forward
StopVibrationDefers(c, tm) ==
    IF c.isSupported
    THEN [vc |-> [c EXCEPT !.isVibrating = FALSE,
                           !.lastVibrationTime = c.lastVibrationTime + c.config.minInterval],
          timers |-> tm, act |-> [Idle EXCEPT !.stopSent = TRUE]]
    ELSE [vc |-> c, timers |-> tm, act |-> Idle]

\* stopVibration() that sends the zero pattern and keeps isVibrating
StopVibrationKeepsFlag(c, tm) ==
    [vc |-> c, timers |-> tm, act |-> [Idle EXCEPT !.stopSent = c.isSupported]]

\* stopVibration(): navigator.vibrate(0) and isVibrating = false when supported
StopVibration(c, tm) ==
    IF c.isSupported
    THEN [vc |-> [c EXCEPT !.isVibrating = FALSE], timers |-> tm,
          act |-> [Idle EXCEPT !.stopSent = TRUE]]
    ELSE [vc |-> c, timers |-> tm, act |-> Idle]

\* enable()
Enable(c) ==
    IF ~c.isSupported THEN [vc |-> c, result |-> FALSE]
    ELSE [vc |-> [c EXCEPT !.isEnabled = TRUE], result |-> TRUE]

\* disable()
Disable(c, tm) == StopVibration([c EXCEPT !.isEnabled = FALSE], tm)

\* The callback that runs next: the pending one with the earliest due time,
\* the oldest among equals, once its due time has come.
IsNextTimer(tm, now, i) ==
    /\ i \in 1..Len(tm)
    /\ tm[i].due <= now
    /\ \A j \in 1..Len(tm) :
          j # i => (tm[i].due < tm[j].due \/ (tm[i].due = tm[j].due /\ i < j))

RemoveAt(tm, i) == [j \in 1..(Len(tm) - 1) |-> IF j < i THEN tm[j] ELSE tm[j + 1]]

\* the body of a setTimeout callback: the one vibrate() creates clears
\* isVibrating, the one predictiveVibrate() creates calls vibrate(pattern)
RunTimer(c, tm, now, i, ok, latency) ==
    IF tm[i].kind = "end"
    THEN [vc |-> [c EXCEPT !.isVibrating = FALSE], timers |-> RemoveAt(tm, i),
          act |-> Idle]
    ELSE Vibrate(c, RemoveAt(tm, i), now, "timer", tm[i].pattern, ok, latency)

\* audioData as getAnalysisData returns it, reduced to the fields the
\* controller reads; set is FALSE while no call has been made, and taken
\* records whether the controller was enabled when it was given the data
AudioData(b, bass, treble, level) ==
    [set |-> TRUE, beat |-> b, frequency |-> [set |-> TRUE, bass |-> bass, treble |-> treble],
     volume |-> [set |-> TRUE, level |-> level], taken |-> TRUE]

NoAudio ==
    [set |-> FALSE, beat |-> NoBeatEvent, frequency |-> NoFrequency, volume |-> NoVolume,
     taken |-> FALSE]

Abs(x) == IF x < 0 THEN -x ELSE x

\* detectFrequencyChange(frequencyData) at Date.now() = now
DetectFrequencyChange(c, now, fd) ==
    IF ~c.lastFrequencyData.set
    THEN [vc |-> [c EXCEPT !.lastFrequencyData = fd], result |-> FALSE]
    ELSE IF now - c.lastVibrationTime < FrequencyQuietMs
    THEN [vc |-> c, result |-> FALSE]
    ELSE LET bassChange == Abs(fd.bass - c.lastFrequencyData.bass)
             trebleChange == Abs(fd.treble - c.lastFrequencyData.treble)
         IN [vc |-> [c EXCEPT !.lastFrequencyData = fd],
             result |-> \/ (bassChange > BassDelta /\ fd.bass > BassFloor)
                        \/ (trebleChange > TrebleDelta /\ fd.treble > TrebleFloor)]

\* detectVolumeChange(volumeData) at Date.now() = now
DetectVolumeChange(c, now, vd) ==
    IF ~c.lastVolumeData.set
    THEN [vc |-> [c EXCEPT !.lastVolumeData = vd], result |-> FALSE]
    ELSE IF now - c.lastVibrationTime < VolumeQuietMs
    THEN [vc |-> c, result |-> FALSE]
    ELSE LET volumeChange == Abs(vd.level - c.lastVolumeData.level)
         IN [vc |-> [c EXCEPT !.lastVolumeData = vd],
             result |-> volumeChange > VolumeDelta /\ vd.level > VolumeFloor]

\* a pattern choice by type alone, without strength tiers or tempo
BeatPatternByType(b) == IF b.type = "kick" THEN <<200, 50>> ELSE patterns.beat

\* the pattern handleBeatVibration chooses for a detected beat
BeatPattern(b) ==
    LET intensity == IF b.strength = RZero THEN Rat(1, 2) ELSE b.strength
        beatType == IF b.type = "none" THEN "energy" ELSE b.type
        strong == RLess(Rat(StrongTenths, 10), intensity)
        medium == RLess(Rat(MediumTenths, 10), intensity)
        base == IF beatType = "kick"
                THEN (IF strong THEN <<300, 50>> ELSE <<200, 50>>)
                ELSE IF strong THEN patterns.strongBeat
                ELSE IF medium THEN patterns.beat
                ELSE <<120, 30>>
    IN IF b.bpm > 0 /\ MsPerMinute < FastBeatMs * b.bpm
       THEN <<IF base[1] < FastBeatOn THEN base[1] ELSE FastBeatOn, base[2]>>
       ELSE base

\* handleBeatVibration(beatData)
HandleBeatVibration(c, tm, now, b, ok, latency) ==
    IF ~b.detected THEN [vc |-> c, timers |-> tm, act |-> Idle]
    ELSE Vibrate(c, tm, now, "beat", BeatPattern(b), ok, latency)

\* handleFrequencyVibration(frequencyData)
HandleFrequencyVibration(c, tm, now, fd, ok, latency) ==
    LET scaled == fd.bass * c.config.intensityMultiplier
        intensity == IF scaled < LScale THEN scaled ELSE LScale
        duration == (intensity * c.config.maxDuration) \div LScale
    IN IF fd.bass > c.config.frequencyThreshold /\ duration > MinFrequencyDuration
       THEN Vibrate(c, tm, now, "freq", <<duration, 100>>, ok, latency)
       ELSE [vc |-> c, timers |-> tm, act |-> Idle]

\* handleVolumeVibration(volume)
HandleVolumeVibration(c, tm, now, level, ok, latency) ==
    IF level > VolumePulseFloor /\ ~c.isVibrating
    THEN Vibrate(c, tm, now, "vol", <<(level * VolumePulseMs) \div LScale, 50>>, ok, latency)
    ELSE [vc |-> c, timers |-> tm, act |-> Idle]

\* syncVibrationWithAudio with the volume branch tested first
SyncVibrationVolumeFirst(c, tm, now, data, ok, latency) ==
    LET v == DetectVolumeChange(c, now, data.volume)
    IN IF v.result
       THEN LET r == HandleVolumeVibration(v.vc, tm, now, data.volume.level, ok, latency)
            IN [r EXCEPT !.act.volChange = TRUE]
       ELSE HandleBeatVibration(v.vc, tm, now, data.beat, ok, latency)

\* syncVibrationWithAudio(audioData): beat, then frequency, then volume
SyncVibrationWithAudio(c, tm, now, data, ok, latency) ==
    IF data.beat.detected
    THEN HandleBeatVibration(c, tm, now, data.beat, ok, latency)
    ELSE LET f == DetectFrequencyChange(c, now, data.frequency)
         IN IF f.result
            THEN LET r == HandleFrequencyVibration(f.vc, tm, now, data.frequency, ok, latency)
                 IN [r EXCEPT !.act.freqChange = TRUE]
            ELSE LET v == DetectVolumeChange(f.vc, now, data.volume)
                 IN IF v.result
                    THEN LET r == HandleVolumeVibration(v.vc, tm, now, data.volume.level,
                                                        ok, latency)
                         IN [r EXCEPT !.act.volChange = TRUE]
                    ELSE [vc |-> v.vc, timers |-> tm, act |-> Idle]

\* processAudioData(audioData) for a non-null audioData
ProcessAudioData(c, tm, now, data, ok, latency) ==
    IF ~c.isEnabled THEN [vc |-> c, timers |-> tm, act |-> Idle]
    ELSE SyncVibrationWithAudio(c, tm, now, data, ok, latency)

\* --------------------------------------------- presets and configuration
\* beatVibration(strength), strength in units of 1/LScale
BeatVibration(c, tm, now, strength, ok, latency) ==
    Vibrate(c, tm, now, "preset",
            <<(strength * c.config.beatVibrationDuration) \div LScale, 50>>, ok, latency)

\* strongBeatVibration()
StrongBeatVibration(c, tm, now, ok, latency) ==
    Vibrate(c, tm, now, "preset", patterns.strongBeat, ok, latency)

\* bassVibration(intensity), intensity in units of 1/LScale
BassVibration(c, tm, now, intensity, ok, latency) ==
    Vibrate(c, tm, now, "preset", <<(intensity * 200) \div LScale, 100>>, ok, latency)

RECURSIVE Cycles(_)
\* the loop of continuousVibration: cycles times push(50, 50)
Cycles(n) == IF n = 0 THEN <<>> ELSE <<50, 50>> \o Cycles(n - 1)

\* continuousVibration(duration)
ContinuousVibration(c, tm, now, duration, ok, latency) ==
    Vibrate(c, tm, now, "preset", Cycles(duration \div 100), ok, latency)

\* pulseVibration()
PulseVibration(c, tm, now, ok, latency) ==
    Vibrate(c, tm, now, "preset", patterns.pulse, ok, latency)

\* customVibration(pattern) for an array pattern
CustomVibration(c, tm, now, pattern, ok, latency) ==
    Vibrate(c, tm, now, "preset",
            [i \in 1..Len(pattern) |-> Min2(pattern[i], c.config.maxDuration)], ok, latency)

\* testVibration(): success is the result of vibrate([200, 100, 200])
TestVibration(c, tm, now, ok, latency) ==
    IF ~c.isSupported THEN [vc |-> c, timers |-> tm, act |-> Idle]
    ELSE Vibrate(c, tm, now, "test", <<200, 100, 200>>, ok, latency)

\* updateConfig(newConfig): this.config = { ...this.config, ...newConfig }
UpdateConfig(c, new) ==
    LET Pick(k) == IF k \in DOMAIN new THEN new[k] ELSE c.config[k]
    IN [c EXCEPT !.config =
           [minInterval |-> Pick("minInterval"), maxDuration |-> Pick("maxDuration"),
            beatVibrationDuration |-> Pick("beatVibrationDuration"),
            intensityMultiplier |-> Pick("intensityMultiplier"),
            frequencyThreshold |-> Pick("frequencyThreshold"),
            adaptiveSync |-> Pick("adaptiveSync"),
            latencyCompensation |-> Pick("latencyCompensation")]]

\* the updateConfig call of optimizeForMobile
MobileConfig == [minInterval |-> 100, maxDuration |-> 300]

\* -------------------------------------------------------- AudioVibrateApp
\* state.isPlaying, state.vibrationEnabled; audioAnalyzer is "null" until
\* the first play(), then "ready", or "failed" when init() threw (the object
\* is assigned before init() is awaited); analysisLoopId is 0 when null or
\* undefined; frames are the pending requestAnimationFrame ids, nextFrame the
\* next id the browser hands out; playing counts play() calls suspended at
\* the await of audioElement.play(); analysis tells what getAnalysisData
\* returned in the last handler: "uncalled", "null" or "data";
\* wasPlayingBeforeHidden is FALSE while undefined; resumeTimers counts the
\* pending 500 ms callbacks of handlePageVisible; hidden is document.hidden;
\* pausedBy tells what stopped playback last: "none" while it runs, "user"
\* for the play/pause control, "hidden" for handlePageHidden, "event" for the
\* audio element's ended and error events.
InitApp ==
    [isPlaying |-> FALSE, vibrationEnabled |-> FALSE, audioAnalyzer |-> "null",
     analysisLoopId |-> 0, frames |-> {}, nextFrame |-> 1, playing |-> 0,
     analysis |-> "uncalled", wasPlayingBeforeHidden |-> FALSE, resumeTimers |-> 0,
     hidden |-> FALSE, pausedBy |-> "none"]

\* toggleVibration(enabled)
ToggleVibration(a, enabled) == [a EXCEPT !.vibrationEnabled = enabled]

\* startAnalysisLoop()
StartAnalysisLoop(a) ==
    IF a.analysisLoopId # 0 THEN a
    ELSE [a EXCEPT !.analysisLoopId = a.nextFrame,
                   !.frames = a.frames \cup {a.nextFrame},
                   !.nextFrame = a.nextFrame + 1]

\* stopAnalysisLoop()
StopAnalysisLoop(a) ==
    IF a.analysisLoopId # 0
    THEN [a EXCEPT !.frames = a.frames \ {a.analysisLoopId}, !.analysisLoopId = 0]
    ELSE a

\* play() that constructs and initialises the analyzer again after a failure
PlayBeginRetry(a, initOk) ==
    [a EXCEPT !.audioAnalyzer = IF a.audioAnalyzer \in {"null", "failed"}
                                THEN (IF initOk THEN "ready" ELSE "failed")
                                ELSE a.audioAnalyzer,
              !.playing = a.playing + 1]

\* play() up to the await of audioElement.play(): the analyzer is created on
\* the first call; initOk tells whether AudioAnalyzer.init() succeeded
PlayBegin(a, initOk) ==
    [a EXCEPT !.audioAnalyzer = IF a.audioAnalyzer = "null"
                                THEN (IF initOk THEN "ready" ELSE "failed")
                                ELSE a.audioAnalyzer,
              !.playing = a.playing + 1]

\* play() after audioElement.play() resolved
PlayResolved(a) ==
    StartAnalysisLoop([a EXCEPT !.isPlaying = TRUE, !.playing = a.playing - 1])

\* play() after audioElement.play() rejected: the catch block reports it
PlayRejected(a) == [a EXCEPT !.playing = a.playing - 1]

\* the loop callback that asks for the next frame only after a tick that
\* produced data
RequestNextFrameAfterData(a) ==
    IF a.isPlaying /\ a.analysis # "null"
    THEN [a EXCEPT !.analysisLoopId = a.nextFrame,
                   !.frames = a.frames \cup {a.nextFrame},
                   !.nextFrame = a.nextFrame + 1]
    ELSE a

\* the end of the loop callback: this.analysisLoopId =
\* requestAnimationFrame(loop), inside if (this.state.isPlaying)
RequestNextFrame(a) ==
    IF a.isPlaying
    THEN [a EXCEPT !.analysisLoopId = a.nextFrame,
                   !.frames = a.frames \cup {a.nextFrame},
                   !.nextFrame = a.nextFrame + 1]
    ELSE a

\* pause()
Pause(a) == StopAnalysisLoop([a EXCEPT !.isPlaying = FALSE])

\* togglePlayPause() with an audio file loaded
TogglePlayPause(a, initOk) ==
    IF a.isPlaying THEN [Pause(a) EXCEPT !.pausedBy = "user"] ELSE PlayBegin(a, initOk)

\* onAudioEnded() that leaves the analysis loop alone
OnAudioEndedKeepsLoop(a) == [a EXCEPT !.isPlaying = FALSE, !.pausedBy = "event"]

\* onAudioEnded()
OnAudioEnded(a) == StopAnalysisLoop([a EXCEPT !.isPlaying = FALSE, !.pausedBy = "event"])

\* onAudioError(event)
OnAudioError(a) == [Pause(a) EXCEPT !.pausedBy = "event"]

\* the requestAnimationFrame callback `loop` with id f, as far as the loop
\* itself goes
LoopCallback(a, f) == RequestNextFrame([a EXCEPT !.frames = a.frames \ {f}])

\* handlePageHidden()
HandlePageHidden(a) ==
    IF a.isPlaying
    THEN [Pause(a) EXCEPT !.wasPlayingBeforeHidden = TRUE, !.pausedBy = "hidden"]
    ELSE a

\* handlePageVisible(): setTimeout(..., 500) when wasPlayingBeforeHidden
HandlePageVisible(a) ==
    IF a.wasPlayingBeforeHidden THEN [a EXCEPT !.resumeTimers = a.resumeTimers + 1] ELSE a

\* the callback handlePageVisible set, 500 ms later
ResumeCallback(a, initOk) ==
    LET fired == [a EXCEPT !.resumeTimers = a.resumeTimers - 1]
    IN IF fired.wasPlayingBeforeHidden
       THEN [PlayBegin(fired, initOk) EXCEPT !.wasPlayingBeforeHidden = FALSE]
       ELSE fired

\* getAnalysisData() at Date.now() = now on a frame with energies (e, k), bass
\* and volume level.  fault tells where an exception is thrown inside the try
\* block: "none", "early" (before detectBeat) or "late" (after it, in
\* updateHistory or calculateSpectralFlux); the catch block returns null.
GetAnalysisData(analyzer, bd, intervals, lastTs, now, e, k, bass, level, fault) ==
    LET untouched == [null |-> TRUE, ran |-> FALSE, bd |-> bd, intervals |-> intervals,
                      lastTs |-> lastTs, event |-> NoBeatEvent, pushed |-> FALSE,
                      bpmCalled |-> FALSE, data |-> NoAudio]
        d == DetectBeat(bd, intervals, lastTs, now, e, k)
        done == [null |-> FALSE, ran |-> TRUE, bd |-> d.bd, intervals |-> d.intervals,
                 lastTs |-> d.lastTs, event |-> d.event, pushed |-> d.pushed,
                 bpmCalled |-> d.bpmCalled, data |-> AudioData(d.event, bass, 0, level)]
    IN IF analyzer # "ready" THEN untouched
       ELSE IF fault = "early" THEN untouched
       ELSE IF fault = "late" THEN [done EXCEPT !.null = TRUE, !.data = NoAudio]
       ELSE done

\* ------------------------------------------------------ controller steps
RECURSIVE PatternLength(_, _)
\* the time the actuator takes for a pattern: its vibrations and its pauses
PatternLength(sent, i) ==
    IF i > Len(sent) THEN RZero ELSE RAdd(sent[i], PatternLength(sent, i + 1))

\* navigator.vibrate(pattern) replaces the pattern being played by the one it
\* accepts, and navigator.vibrate(0) ends it (0: nothing is playing)
Playing(a, now, until) ==
    IF a.accepted THEN RAdd(RInt(now), PatternLength(a.sent, 1))
    ELSE IF a.stopSent THEN RZero
    ELSE until

\* Apply the outcome r of a controller operation named op.
Apply(op, r) ==
    /\ vc' = r.vc
    /\ timers' = r.timers
    /\ act' = [r.act EXCEPT !.afterStop = (lastOp = "stop")]
    /\ lastAcceptAt' = IF r.act.accepted THEN clock ELSE lastAcceptAt
    /\ playingUntil' = Playing(r.act, clock, playingUntil)
    /\ lastOp' = op
    /\ UNCHANGED <<clock, analyzerVars, audio, prevAudio, app>>

ControllerInit(supported) ==
    /\ vc = InitController(supported)
    /\ timers = <<>>
    /\ act = Idle
    /\ lastAcceptAt = 0
    /\ playingUntil = RZero
    /\ lastOp = "init"
    /\ audio = NoAudio
    /\ prevAudio = NoAudio
    /\ app = InitApp

\* ------------------------------------------------ SpecBeat: beat detection
\* Milliseconds between ticks: inside the cooldown and at its edge.
TickGaps == {100, 300}

\* (total, kick) pairs calculateEnergy can return, in units of 1/EScale:
\* silence, a quiet frame, a loud frame without kick-band content, and a
\* loud frame with it.
EnergyInputs == {<<0, 0>>, <<2, 0>>, <<8, 0>>, <<8, 10>>}

BeatTick ==
    /\ ticks < MaxTicks
    /\ \E dt \in TickGaps, in \in EnergyInputs : DetectBeatCall(dt, in[1], in[2])

InitBeat == AnalyzerInit(SmallHistory) /\ ControllerInit(TRUE)
NextBeat == BeatTick
SpecBeat == InitBeat /\ [][NextBeat]_vars

\* --------------------------------------------- SpecTempo: tempo estimation
\* Every frame carries kick-band energy, so every tick outside the cooldown
\* is a beat and the gaps decide the beat times: inside the cooldown, at its
\* edge, 120 BPM, slower than 60 BPM, and longer than the accepted maximum.
TempoGaps == {100, 300, 500, 1200, 2100}
KickFrame == <<8, 10>>

TempoTick ==
    /\ ticks < MaxTempoTicks
    /\ \E dt \in TempoGaps : DetectBeatCall(dt, KickFrame[1], KickFrame[2])

InitTempo == AnalyzerInit(SmallHistory) /\ ControllerInit(TRUE)
NextTempo == TempoTick
SpecTempo == InitTempo /\ [][NextTempo]_vars

\* ------------------------ SpecIntervals: the interval list filling up
\* Kick frames at a steady 120 BPM until the interval list is one short of
\* MaxIntervals, then ticks at any of the gaps of SpecTempo.
SteadyGap == 500

IntervalTick ==
    /\ ticks < MaxIntervalTicks
    /\ \E dt \in (IF Len(beatIntervals) < MaxIntervals - 1 THEN {SteadyGap} ELSE TempoGaps) :
          DetectBeatCall(dt, KickFrame[1], KickFrame[2])

InitIntervals == AnalyzerInit(SmallHistory) /\ ControllerInit(TRUE)
NextIntervals == IntervalTick
SpecIntervals == InitIntervals /\ [][NextIntervals]_vars

\* ------------------------------------ SpecScenario: the 43-sample scenario
\* historySize ticks of silence at display-refresh cadence, then a spike
\* without kick-band content, then the same spike again 100 ms later.
FrameGaps == {16, 33}
SpikeEnergies == {5, 7, 10}
SecondSpikeGaps == {100}

SilentTick ==
    /\ ticks < beatDetection.historySize
    /\ \E dt \in FrameGaps : DetectBeatCall(dt, 0, 0)

SpikeTick ==
    /\ ticks = beatDetection.historySize
    /\ \E dt \in FrameGaps, e \in SpikeEnergies : DetectBeatCall(dt, e, 0)

SecondSpikeTick ==
    /\ ticks = beatDetection.historySize + 1
    /\ \E dt \in SecondSpikeGaps :
          DetectBeatCall(dt, beatDetection.energyHistory[Len(beatDetection.energyHistory)], 0)

InitScenario == AnalyzerInit(DefaultHistorySize) /\ ControllerInit(TRUE)
NextScenario == SilentTick \/ SpikeTick \/ SecondSpikeTick
SpecScenario == InitScenario /\ [][NextScenario]_vars

\* ------------------------------------- SpecSched: the controller's API
\* enable, disable, stopVibration, vibrate and predictiveVibrate called in
\* any order while time passes and timer callbacks run.  A callback never
\* runs before its due time; it may run late.
SchedSteps == {10, 20}
SchedPatterns == {<<30, 20>>}
\* audioTimestamp - now: in the past, and two future targets
SchedTargets == {-5, 30, 40}
Latencies == {0, 3}

Advance ==
    /\ \E dt \in SchedSteps :
          /\ clock + dt <= StartTime + SchedHorizon
          /\ clock' = clock + dt
    /\ act' = Idle
    /\ lastOp' = "advance"
    /\ UNCHANGED <<analyzerVars, vc, timers, lastAcceptAt, playingUntil, audio, prevAudio, app>>

FireTimer ==
    \E i \in 1..Len(timers), ok \in BOOLEAN, latency \in Latencies :
        /\ IsNextTimer(timers, clock, i)
        /\ Apply("timer", [RunTimer(vc, timers, clock, i, ok, latency)
                              EXCEPT !.act.overStop = timers[i].seenStop])

EnableCall ==
    Apply("enable", [vc |-> Enable(vc).vc, timers |-> timers,
                   act |-> [Idle EXCEPT !.result = Enable(vc).result]])

DisableCall == Apply("disable", Disable(vc, timers))

\* the callbacks pending while stopVibration() runs, marked as such
SeenStop(tm) == [i \in 1..Len(tm) |-> [tm[i] EXCEPT !.seenStop = TRUE]]

StopCall == Apply("stop", StopVibration(vc, SeenStop(timers)))

VibrateCall ==
    /\ Len(timers) < MaxTimers
    /\ \E p \in SchedPatterns, ok \in BOOLEAN, latency \in Latencies :
          Apply("vibrate", Vibrate(vc, timers, clock, "direct", p, ok, latency))

PredictiveCall ==
    /\ Len(timers) < MaxTimers
    /\ \E p \in SchedPatterns, target \in SchedTargets, ok \in BOOLEAN,
          latency \in Latencies :
          Apply("predictive",
                PredictiveVibrate(vc, timers, clock, p, clock + target, ok, latency))

InitSched == AnalyzerInit(DefaultHistorySize) /\ \E s \in BOOLEAN : ControllerInit(s)
NextSched ==
    \/ Advance
    \/ FireTimer
    \/ EnableCall
    \/ DisableCall
    \/ StopCall
    \/ VibrateCall
    \/ PredictiveCall
SpecSched == InitSched /\ [][NextSched]_vars

\* ------------------------------- SpecSync: processAudioData tick by tick
\* enable() and then analysis ticks with time passing between them.
SyncSteps == {50, 150}
SyncLatencies == {1}
\* no beat, or a medium beat at a fast tempo (pattern [80, 50])
SyncBeats ==
    {NoBeatEvent,
     [detected |-> TRUE, strength |-> Rat(6, 10), bpm |-> 180, confidence |-> ROne,
      type |-> "energy"]}
SyncBass == {20, 90}
SyncTreble == {10}
SyncLevels == {20, 75, 90}

\* A processAudioData call; the arguments of the last two calls are kept.
ProcessStep(data, ok, latency) ==
    LET r == ProcessAudioData(vc, timers, clock, data, ok, latency)
    IN /\ vc' = r.vc
       /\ timers' = r.timers
       /\ act' = r.act
       /\ lastAcceptAt' = IF r.act.accepted THEN clock ELSE lastAcceptAt
       /\ playingUntil' = Playing(r.act, clock, playingUntil)
       /\ lastOp' = "process"
       /\ audio' = [data EXCEPT !.taken = vc.isEnabled]
       /\ prevAudio' = [audio EXCEPT !.beat = NoBeatEvent]
       /\ UNCHANGED <<clock, analyzerVars, app>>

SyncAdvance ==
    /\ \E dt \in SyncSteps :
          /\ clock + dt <= StartTime + SyncHorizon
          /\ clock' = clock + dt
    /\ act' = Idle
    /\ lastOp' = "advance"
    /\ UNCHANGED <<analyzerVars, vc, timers, lastAcceptAt, playingUntil, audio, prevAudio, app>>

SyncTimer ==
    \E i \in 1..Len(timers), ok \in BOOLEAN, latency \in SyncLatencies :
        /\ IsNextTimer(timers, clock, i)
        /\ Apply("timer", RunTimer(vc, timers, clock, i, ok, latency))

SyncEnable ==
    /\ ~vc.isEnabled
    /\ Apply("enable", [vc |-> Enable(vc).vc, timers |-> timers,
                        act |-> [Idle EXCEPT !.result = Enable(vc).result]])

SyncProcess ==
    /\ lastOp # "process"
    /\ Len(timers) < MaxTimers
    /\ \E b \in SyncBeats, bass \in SyncBass, treble \in SyncTreble,
          level \in SyncLevels, ok \in BOOLEAN, latency \in SyncLatencies :
          ProcessStep(AudioData(b, bass, treble, level), ok, latency)

InitSync == AnalyzerInit(DefaultHistorySize) /\ ControllerInit(TRUE)
NextSync == SyncAdvance \/ SyncTimer \/ SyncEnable \/ SyncProcess
SpecSync == InitSync /\ [][NextSync]_vars

\* ------------------------- SpecPreset: every operation of the controller
\* enable, disable, updateConfig, the preset helpers, testVibration, vibrate,
\* predictiveVibrate and processAudioData called in any order on a supported
\* or an unsupported device while time passes.  A call that may reach
\* vibrate() is made when no callback is pending.
PresetSteps == {100}
PresetLatencies == {1}
\* strength and intensity, in units of 1/LScale
PresetStrengths == {50}
PresetIntensities == {50}
\* continuousVibration: shorter and longer than one cycle
PresetDurations == {50, 250}
PresetCustoms == {<<1000, 5>>}
PresetTargets == {100}
\* optimizeForMobile's argument and a compensation below and above 0..50
PresetConfigs ==
    {MobileConfig, [latencyCompensation |-> RInt(-5)], [latencyCompensation |-> RInt(80)]}
\* a strong beat at a moderate tempo with loud bass
PresetAudio ==
    AudioData([detected |-> TRUE, strength |-> Rat(9, 10), bpm |-> 120,
               confidence |-> ROne, type |-> "energy"], 90, 10, 90)

PresetAdvance ==
    /\ \E dt \in PresetSteps :
          /\ clock + dt <= StartTime + PresetHorizon
          /\ clock' = clock + dt
    /\ act' = Idle
    /\ lastOp' = "advance"
    /\ UNCHANGED <<analyzerVars, vc, timers, lastAcceptAt, playingUntil, audio, prevAudio, app>>

PresetTimer ==
    \E i \in 1..Len(timers), ok \in BOOLEAN, latency \in PresetLatencies :
        /\ IsNextTimer(timers, clock, i)
        /\ Apply("timer", RunTimer(vc, timers, clock, i, ok, latency))

PresetEnable ==
    Apply("enable", [vc |-> Enable(vc).vc, timers |-> timers,
                     act |-> [Idle EXCEPT !.result = Enable(vc).result]])

PresetDisable == Apply("disable", Disable(vc, timers))

PresetUpdateConfig ==
    \E new \in PresetConfigs :
        Apply("updateConfig", [vc |-> UpdateConfig(vc, new), timers |-> timers, act |-> Idle])

PresetVibrate ==
    /\ timers = <<>>
    /\ \E ok \in BOOLEAN, latency \in PresetLatencies :
          Apply("vibrate", Vibrate(vc, timers, clock, "direct", <<30, 20>>, ok, latency))

PresetPredictive ==
    /\ timers = <<>>
    /\ \E target \in PresetTargets, ok \in BOOLEAN, latency \in PresetLatencies :
          Apply("predictive",
                PredictiveVibrate(vc, timers, clock, <<30, 20>>, clock + target, ok, latency))

PresetProcess ==
    /\ timers = <<>>
    /\ \E ok \in BOOLEAN, latency \in PresetLatencies : ProcessStep(PresetAudio, ok, latency)

PresetBeat ==
    /\ timers = <<>>
    /\ \E strength \in PresetStrengths, ok \in BOOLEAN, latency \in PresetLatencies :
          Apply("beatVibration", BeatVibration(vc, timers, clock, strength, ok, latency))

PresetStrongBeat ==
    /\ timers = <<>>
    /\ \E ok \in BOOLEAN, latency \in PresetLatencies :
          Apply("strongBeatVibration", StrongBeatVibration(vc, timers, clock, ok, latency))

PresetBass ==
    /\ timers = <<>>
    /\ \E intensity \in PresetIntensities, ok \in BOOLEAN, latency \in PresetLatencies :
          Apply("bassVibration", BassVibration(vc, timers, clock, intensity, ok, latency))

PresetContinuous ==
    /\ timers = <<>>
    /\ \E duration \in PresetDurations, ok \in BOOLEAN, latency \in PresetLatencies :
          Apply("continuousVibration",
                ContinuousVibration(vc, timers, clock, duration, ok, latency))

PresetPulse ==
    /\ timers = <<>>
    /\ \E ok \in BOOLEAN, latency \in PresetLatencies :
          Apply("pulseVibration", PulseVibration(vc, timers, clock, ok, latency))

PresetCustom ==
    /\ timers = <<>>
    /\ \E pattern \in PresetCustoms, ok \in BOOLEAN, latency \in PresetLatencies :
          Apply("customVibration", CustomVibration(vc, timers, clock, pattern, ok, latency))

PresetTest ==
    /\ timers = <<>>
    /\ \E ok \in BOOLEAN, latency \in PresetLatencies :
          Apply("testVibration", TestVibration(vc, timers, clock, ok, latency))

InitPreset == AnalyzerInit(DefaultHistorySize) /\ \E s \in BOOLEAN : ControllerInit(s)
NextPreset ==
    \/ PresetAdvance
    \/ PresetTimer
    \/ PresetEnable
    \/ PresetDisable
    \/ PresetUpdateConfig
    \/ PresetVibrate
    \/ PresetPredictive
    \/ PresetProcess
    \/ PresetBeat
    \/ PresetStrongBeat
    \/ PresetBass
    \/ PresetContinuous
    \/ PresetPulse
    \/ PresetCustom
    \/ PresetTest
SpecPreset == InitPreset /\ [][NextPreset]_vars

\* ------------------------------ SpecRate: vibrate() as often as it is let
\* enable() and then direct vibrate calls with the default configuration
\* while time passes in steps of the default minInterval and longer.
RateSteps == {20, 40}
RateLatencies == {1}

RateAdvance ==
    /\ \E dt \in RateSteps :
          /\ clock + dt <= StartTime + RateHorizon
          /\ clock' = clock + dt
    /\ act' = Idle
    /\ lastOp' = "advance"
    /\ UNCHANGED <<analyzerVars, vc, timers, lastAcceptAt, playingUntil, audio, prevAudio, app>>

RateTimer ==
    \E i \in 1..Len(timers), ok \in BOOLEAN, latency \in RateLatencies :
        /\ IsNextTimer(timers, clock, i)
        /\ Apply("timer", RunTimer(vc, timers, clock, i, ok, latency))

RateEnable ==
    /\ ~vc.isEnabled
    /\ Apply("enable", [vc |-> Enable(vc).vc, timers |-> timers,
                        act |-> [Idle EXCEPT !.result = Enable(vc).result]])

RateVibrate ==
    /\ Len(timers) < MaxTimers
    /\ \E ok \in BOOLEAN, latency \in RateLatencies :
          Apply("vibrate", Vibrate(vc, timers, clock, "direct", <<30, 20>>, ok, latency))

InitRate == AnalyzerInit(DefaultHistorySize) /\ ControllerInit(TRUE)
NextRate == RateAdvance \/ RateTimer \/ RateEnable \/ RateVibrate
SpecRate == InitRate /\ [][NextRate]_vars

\* ------------------------ SpecPattern: one beat of every kind per tick
\* enable() and then processAudioData ticks that each carry a detected beat:
\* kick or energy, with a strength at, below and above both tiers, without a
\* tempo or at 120, 150 (a beat every 400 ms) and 180 BPM.
PatternSteps == {400}
PatternLatencies == {1}
PatternTypes == {"kick", "energy"}
PatternStrengths == {Rat(0, 1), Rat(3, 10), Rat(5, 10), Rat(6, 10), Rat(8, 10), Rat(9, 10), ROne}
PatternTempos == {0, 120, 150, 180}

PatternAdvance ==
    /\ \E dt \in PatternSteps :
          /\ clock + dt <= StartTime + PatternHorizon
          /\ clock' = clock + dt
    /\ act' = Idle
    /\ lastOp' = "advance"
    /\ UNCHANGED <<analyzerVars, vc, timers, lastAcceptAt, playingUntil, audio, prevAudio, app>>

PatternTimer ==
    \E i \in 1..Len(timers), ok \in BOOLEAN, latency \in PatternLatencies :
        /\ IsNextTimer(timers, clock, i)
        /\ Apply("timer", RunTimer(vc, timers, clock, i, ok, latency))

PatternEnable ==
    /\ ~vc.isEnabled
    /\ Apply("enable", [vc |-> Enable(vc).vc, timers |-> timers,
                        act |-> [Idle EXCEPT !.result = Enable(vc).result]])

PatternProcess ==
    /\ timers = <<>>
    /\ \E type \in PatternTypes, strength \in PatternStrengths, bpm \in PatternTempos,
          ok \in BOOLEAN, latency \in PatternLatencies :
          ProcessStep(AudioData([detected |-> TRUE, strength |-> strength, bpm |-> bpm,
                                 confidence |-> ROne, type |-> type], 20, 10, 20),
                      ok, latency)

InitPattern == AnalyzerInit(DefaultHistorySize) /\ ControllerInit(TRUE)
NextPattern == PatternAdvance \/ PatternTimer \/ PatternEnable \/ PatternProcess
SpecPattern == InitPattern /\ [][NextPattern]_vars

\* ------------------- SpecLatency: vibrate() until the latency history is full
\* enable(), updateConfig({adaptiveSync: false}) at any moment, and a vibrate
\* call every minInterval, each measuring a latency.  The measured latency is
\* free for the first sample and from the 20th on, and repeats in between.
LatencySteps == {20}
LatencySamples == {0, 3, 60}
LatencyPatterns == {<<15, 20, 5>>, <<5, 20>>}

LatencyAdvance ==
    /\ \E dt \in LatencySteps :
          /\ clock + dt <= StartTime + LatencyHorizon
          /\ clock' = clock + dt
    /\ act' = Idle
    /\ lastOp' = "advance"
    /\ UNCHANGED <<analyzerVars, vc, timers, lastAcceptAt, playingUntil, audio, prevAudio, app>>

LatencyTimer ==
    \E i \in 1..Len(timers) :
        /\ IsNextTimer(timers, clock, i)
        /\ Apply("timer", RunTimer(vc, timers, clock, i, TRUE, 0))

LatencyEnable ==
    /\ ~vc.isEnabled
    /\ Apply("enable", [vc |-> Enable(vc).vc, timers |-> timers,
                        act |-> [Idle EXCEPT !.result = Enable(vc).result]])

LatencyFixSync ==
    /\ vc.config.adaptiveSync
    /\ Apply("updateConfig", [vc |-> UpdateConfig(vc, [adaptiveSync |-> FALSE]),
                              timers |-> timers, act |-> Idle])

LatencyVibrate ==
    /\ timers = <<>>
    /\ LET h == vc.syncState.latencyHistory
           free == Len(h) = 0 \/ Len(h) >= MaxLatencySamples - 1
       IN \E p \in LatencyPatterns, ok \in BOOLEAN,
             latency \in (IF free THEN LatencySamples ELSE {h[Len(h)]}) :
             Apply("vibrate", Vibrate(vc, timers, clock, "direct", p, ok, latency))

InitLatency == AnalyzerInit(DefaultHistorySize) /\ ControllerInit(TRUE)
NextLatency ==
    \/ LatencyAdvance
    \/ LatencyTimer
    \/ LatencyEnable
    \/ LatencyFixSync
    \/ LatencyVibrate
SpecLatency == InitLatency /\ [][NextLatency]_vars

\* ------------------- SpecSwitch: disable() and enable() around callbacks
\* enable, disable, vibrate and predictiveVibrate for a later timestamp, in
\* any order while time passes and callbacks run; a callback that is pending
\* while disable() runs is marked.
SwitchSteps == {10, 20}
SwitchTargets == {30}
SwitchLatencies == {1}

SwitchAdvance ==
    /\ \E dt \in SwitchSteps :
          /\ clock + dt <= StartTime + SwitchHorizon
          /\ clock' = clock + dt
    /\ act' = Idle
    /\ lastOp' = "advance"
    /\ UNCHANGED <<analyzerVars, vc, timers, lastAcceptAt, playingUntil, audio, prevAudio, app>>

SwitchTimer ==
    \E i \in 1..Len(timers), ok \in BOOLEAN, latency \in SwitchLatencies :
        /\ IsNextTimer(timers, clock, i)
        /\ Apply("timer", [RunTimer(vc, timers, clock, i, ok, latency)
                              EXCEPT !.act.overDisable = timers[i].seenDisable])

SwitchEnable ==
    Apply("enable", [vc |-> Enable(vc).vc, timers |-> timers,
                     act |-> [Idle EXCEPT !.result = Enable(vc).result]])

\* the callbacks pending while disable() runs, marked as such
SeenDisable(tm) == [i \in 1..Len(tm) |-> [tm[i] EXCEPT !.seenDisable = TRUE]]

SwitchDisable == Apply("disable", Disable(vc, SeenDisable(timers)))

SwitchVibrate ==
    /\ Len(timers) < MaxTimers
    /\ \E ok \in BOOLEAN, latency \in SwitchLatencies :
          Apply("vibrate", Vibrate(vc, timers, clock, "direct", <<30, 20>>, ok, latency))

SwitchPredictive ==
    /\ Len(timers) < MaxTimers
    /\ \E target \in SwitchTargets, ok \in BOOLEAN, latency \in SwitchLatencies :
          Apply("predictive",
                PredictiveVibrate(vc, timers, clock, <<30, 20>>, clock + target, ok, latency))

InitSwitch == AnalyzerInit(DefaultHistorySize) /\ ControllerInit(TRUE)
NextSwitch ==
    \/ SwitchAdvance
    \/ SwitchTimer
    \/ SwitchEnable
    \/ SwitchDisable
    \/ SwitchVibrate
    \/ SwitchPredictive
SpecSwitch == InitSwitch /\ [][NextSwitch]_vars

\* ------------------------------------- SpecApp: the page as the user drives it
\* The user toggles vibration, plays and pauses; animation frames run the
\* analysis loop.  The controller is only reached through processAudioData.
AppGaps == {300}
AppFrames == {<<0, 0>>, <<8, 10>>}
AppBass == {20}
AppLevels == {20}
\* where getAnalysisData's try block throws, if it does
AppFaults == {"none", "early", "late"}

AppUnchanged == UNCHANGED <<clock, analyzerVars, audio, prevAudio>>

ToggleStep ==
    \E enabled \in BOOLEAN :
        /\ app' = [ToggleVibration(app, enabled) EXCEPT !.analysis = "uncalled"]
        /\ lastOp' = "toggle"
        /\ act' = Idle
        /\ UNCHANGED <<vc, timers, lastAcceptAt, playingUntil>>
        /\ AppUnchanged

PlayStep ==
    /\ app.playing < MaxPlays
    /\ ~app.isPlaying
    /\ \E initOk \in BOOLEAN : app' = [PlayBegin(app, initOk) EXCEPT !.analysis = "uncalled"]
    /\ lastOp' = "play"
    /\ act' = Idle
    /\ UNCHANGED <<vc, timers, lastAcceptAt, playingUntil>>
    /\ AppUnchanged

PlayResolveStep ==
    /\ app.playing > 0
    /\ app.nextFrame <= MaxFrames
    /\ app' = [PlayResolved(app) EXCEPT !.analysis = "uncalled"]
    /\ lastOp' = "playing"
    /\ act' = Idle
    /\ UNCHANGED <<vc, timers, lastAcceptAt, playingUntil>>
    /\ AppUnchanged

PlayRejectStep ==
    /\ app.playing > 0
    /\ app' = [PlayRejected(app) EXCEPT !.analysis = "uncalled"]
    /\ lastOp' = "rejected"
    /\ act' = Idle
    /\ UNCHANGED <<vc, timers, lastAcceptAt, playingUntil>>
    /\ AppUnchanged

PauseStep ==
    /\ app.isPlaying
    /\ app' = [Pause(app) EXCEPT !.analysis = "uncalled"]
    /\ lastOp' = "pause"
    /\ act' = Idle
    /\ UNCHANGED <<vc, timers, lastAcceptAt, playingUntil>>
    /\ AppUnchanged

\* The requestAnimationFrame callback `loop` with id f, dt ms after the last
\* clock read: updateAudioAnalysis() and the next requestAnimationFrame.
\* getAnalysisData() runs detectBeat on the frame's energies (e, k) and
\* returns the bass and volume levels with the BeatEvent.
FrameStep ==
    \E f \in app.frames, dt \in AppGaps, in \in AppFrames, bass \in AppBass,
       level \in AppLevels, fault \in AppFaults, ok \in BOOLEAN,
       latency \in SyncLatencies :
      \E g \in {GetAnalysisData(app.audioAnalyzer, beatDetection, beatIntervals,
                                lastBeatTimestamp, clock + dt, in[1], in[2], bass, level,
                                fault)} :
        LET now == clock + dt
            a1 == [app EXCEPT !.frames = app.frames \ {f}]
            \* updateAudioAnalysis: if (!this.audioAnalyzer || !isPlaying) return
            called == a1.isPlaying /\ a1.audioAnalyzer # "null"
            process == called /\ ~g.null /\ a1.vibrationEnabled
            r == ProcessAudioData(vc, timers, now, g.data, ok, latency)
            a2 == [a1 EXCEPT !.analysis = IF ~called THEN "uncalled"
                                          ELSE IF g.null THEN "null" ELSE "data"]
        IN /\ app.nextFrame <= MaxFrames
           /\ clock' = now
           /\ lastOp' = "frame"
           /\ app' = RequestNextFrame(a2)
           /\ IF called /\ g.ran
              THEN /\ beatDetection' = g.bd
                   /\ beatIntervals' = g.intervals
                   /\ lastBeatTimestamp' = g.lastTs
                   /\ beat' = g.event
                   /\ beatAt' = now
                   /\ ticks' = ticks + 1
                   /\ lastDetectAt' = IF g.event.detected THEN now ELSE lastDetectAt
                   /\ nDetected' = IF g.event.detected THEN nDetected + 1 ELSE nDetected
                   /\ pushed' = g.pushed
                   /\ bpmCalled' = g.bpmCalled
                   /\ spectrum' = spectrum
              ELSE UNCHANGED analyzerVars
           /\ IF process
              THEN /\ vc' = r.vc
                   /\ timers' = r.timers
                   /\ act' = r.act
                   /\ lastAcceptAt' = IF r.act.accepted THEN now ELSE lastAcceptAt
                   /\ playingUntil' = Playing(r.act, now, playingUntil)
                   /\ audio' = [g.data EXCEPT !.taken = vc.isEnabled]
                   /\ prevAudio' = [audio EXCEPT !.beat = NoBeatEvent]
              ELSE /\ act' = Idle
                   /\ UNCHANGED <<vc, timers, lastAcceptAt, playingUntil, audio, prevAudio>>

InitApplication == AnalyzerInit(SmallHistory) /\ \E s \in BOOLEAN : ControllerInit(s)
NextApp ==
    \/ ToggleStep
    \/ PlayStep
    \/ PlayResolveStep
    \/ PlayRejectStep
    \/ PauseStep
    \/ FrameStep
SpecApp == InitApplication /\ [][NextApp]_vars

\* ------------- SpecPage: play, pause, audio events and page visibility
\* The play/pause control, the audio element's ended and error events, the
\* resolution of audioElement.play(), animation frames and visibility changes
\* in any order.  The control is used while the page is visible.
PageStep(op, a) ==
    /\ app' = [a EXCEPT !.analysis = "uncalled"]
    /\ lastOp' = op
    /\ act' = Idle
    /\ UNCHANGED <<clock, analyzerVars, vc, timers, lastAcceptAt, playingUntil, audio,
                   prevAudio>>

PageToggle ==
    /\ ~app.hidden
    /\ app.isPlaying \/ app.playing < MaxPagePlays
    /\ \E initOk \in BOOLEAN : PageStep("togglePlay", TogglePlayPause(app, initOk))

PagePlayResolve ==
    /\ app.playing > 0
    /\ app.nextFrame <= MaxPageFrames
    /\ PageStep("playing", [PlayResolved(app) EXCEPT !.pausedBy = "none"])

PagePlayReject ==
    /\ app.playing > 0
    /\ PageStep("rejected", PlayRejected(app))

PageEnded ==
    /\ app.isPlaying
    /\ PageStep("ended", OnAudioEnded(app))

PageError == PageStep("error", OnAudioError(app))

PageFrame ==
    /\ app.nextFrame <= MaxPageFrames
    /\ \E f \in app.frames : PageStep("loop", LoopCallback(app, f))

PageHidden ==
    /\ ~app.hidden
    /\ PageStep("hidden", [HandlePageHidden(app) EXCEPT !.hidden = TRUE])

PageVisible ==
    /\ app.hidden
    /\ app.resumeTimers < MaxResumeTimers
    /\ PageStep("visible", [HandlePageVisible(app) EXCEPT !.hidden = FALSE])

PageResume ==
    /\ app.resumeTimers > 0
    /\ app.playing < MaxPagePlays
    /\ \E initOk \in BOOLEAN : PageStep("resume", ResumeCallback(app, initOk))

InitPage == AnalyzerInit(DefaultHistorySize) /\ ControllerInit(TRUE)
NextPage ==
    \/ PageToggle
    \/ PagePlayResolve
    \/ PagePlayReject
    \/ PageEnded
    \/ PageError
    \/ PageFrame
    \/ PageHidden
    \/ PageVisible
    \/ PageResume
SpecPage == InitPage /\ [][NextPage]_vars

\* ---------------- SpecStats: the average and variance of a full window
\* The window is any sequence of StatsWindow samples; the one step computes
\* the statistics as the floating-point operations of detectBeat do.
StatsSamples == {0, 3, 5, 6, 7}

InitStats ==
    /\ ControllerInit(TRUE)
    /\ clock = StartTime
    /\ \E h \in [1..StatsWindow -> StatsSamples] :
          beatDetection = [InitBeatDetection(StatsWindow) EXCEPT !.energyHistory = h]
    /\ beatIntervals = <<>>
    /\ lastBeatTimestamp = 0
    /\ beat = NoBeatEvent
    /\ beatAt = 0
    /\ ticks = 0
    /\ lastDetectAt = 0
    /\ nDetected = 0
    /\ pushed = FALSE
    /\ bpmCalled = FALSE
    /\ spectrum = NoSpectrum

ComputeStats ==
    /\ ticks = 0
    /\ beatDetection' = UpdateStatsDouble(beatDetection, beatDetection.energyHistory)
    /\ ticks' = 1
    /\ pushed' = TRUE
    /\ UNCHANGED <<clock, beatIntervals, lastBeatTimestamp, beat, beatAt, lastDetectAt,
                   nDetected, bpmCalled, spectrum, controllerVars, app>>

SpecStats == InitStats /\ [][ComputeStats]_vars

\* ------------------- SpecSpectrum: the frequency buffers tick by tick
\* After init(), each tick reads a frame: a level floor with one bin raised
\* to a peak, in the bass, mid or treble band, below and above 5000 Hz.
SpectrumFloors == {0, 10}
SpectrumPeaks == {128, 255}
SpectrumSpikes == {5, 100, 200, 500}

SpectrumFrame(floor, spike, peak) ==
    [i \in 1..BinCount |-> IF i = spike + 1 THEN peak ELSE floor]

SpectrumTick ==
    /\ spectrum.reads < MaxSpectrumReads
    /\ \E floor \in SpectrumFloors, spike \in SpectrumSpikes, peak \in SpectrumPeaks :
          spectrum' = ReadSpectrum(spectrum, SpectrumFrame(floor, spike, peak))
    /\ UNCHANGED <<clock, beatDetection, beatIntervals, lastBeatTimestamp, beat, beatAt,
                   ticks, lastDetectAt, nDetected, pushed, bpmCalled, controllerVars, app>>

InitSpectrum ==
    /\ ControllerInit(TRUE)
    /\ clock = StartTime
    /\ beatDetection = InitBeatDetection(DefaultHistorySize)
    /\ beatIntervals = <<>>
    /\ lastBeatTimestamp = 0
    /\ beat = NoBeatEvent
    /\ beatAt = 0
    /\ ticks = 0
    /\ lastDetectAt = 0
    /\ nDetected = 0
    /\ pushed = FALSE
    /\ bpmCalled = FALSE
    /\ spectrum = InitBuffers

SpecSpectrum == InitSpectrum /\ [][SpectrumTick]_vars

\* ------------------------------------------------------------------ claims
\* C1: any two detectBeat calls that return detected=true have tick times at
\* least beatDetection.minInterval apart (checked at each detection against
\* the tick time of the detection before it).
C1_MinBeatInterval ==
    [][(ticks' = ticks + 1 /\ beat'.detected /\ lastDetectAt # 0)
          => beatAt' - lastDetectAt >= beatDetection.minInterval]_vars

\* two detections have happened, the second on the last tick
C1_Witness == nDetected >= 2 /\ beat.detected /\ beatAt = lastDetectAt

\* C2 as stated: two patterns handed to navigator.vibrate by vibrate(), from
\* a direct call or from a predictiveVibrate callback, are at least
\* config.minInterval ms apart (checked on two calls in a row that both reach
\* navigator.vibrate).
C2_HandedApart ==
    [][(act.handed /\ act'.handed) => clock' - clock >= vc'.config.minInterval]_vars

\* C2 amended: two patterns navigator.vibrate accepted (it returned true) are
\* at least config.minInterval ms apart, whatever was attempted in between;
\* a pattern it refused does not start the interval.
C2_AcceptedApart ==
    [][(act'.accepted /\ lastAcceptAt # 0)
          => clock' - lastAcceptAt >= vc'.config.minInterval]_vars

\* a predictiveVibrate callback has just had the second pattern accepted
C2_Witness ==
    /\ act.accepted
    /\ act.source = "timer"
    /\ Len(vc.syncState.latencyHistory) >= 2

\* the frequency detector's test on the data of this tick and the tick before
FrequencyTransient ==
    /\ prevAudio.set
    /\ Abs(audio.frequency.bass - prevAudio.frequency.bass) > BassDelta
    /\ audio.frequency.bass > BassFloor

\* the volume detector's test on the data of this tick and the tick before
VolumeSwell ==
    /\ prevAudio.set
    /\ Abs(audio.volume.level - prevAudio.volume.level) > VolumeDelta
    /\ audio.volume.level > VolumeFloor

C4_ToggleOnBeatVibrates ==
    (/\ lastOp = "frame"
     /\ vc.isSupported
     /\ app.vibrationEnabled
     /\ app.isPlaying
     /\ app.analysis = "data"
     /\ beatAt = clock
     /\ beat.detected
     /\ clock - lastAcceptAt >= vc.config.minInterval)
        => act.handed

\* C5 as stated: on a supported and enabled controller, vibrate(pattern)
\* called right after stopVibration() reaches navigator.vibrate, whatever
\* happened before the stop.
C5_StopThenVibrate ==
    (lastOp = "vibrate" /\ act.afterStop /\ vc.isSupported /\ vc.isEnabled)
        => act.handed

\* C5 amended: vibrate(pattern) called right after stopVibration() reaches
\* navigator.vibrate exactly when config.minInterval ms have passed since the
\* last accepted pattern, as it would without the stop, and returns true
\* exactly when navigator.vibrate accepts.
C5_StopNeverBlocks ==
    [][(lastOp = "stop" /\ lastOp' = "vibrate" /\ vc.isSupported /\ vc.isEnabled)
          => /\ act'.handed <=> (clock' - lastAcceptAt >= vc.config.minInterval)
             /\ act'.result <=> act'.accepted]_vars

\* a pattern was accepted, stopVibration() was called, and the vibrate() call
\* right after it was accepted too
C5_Witness ==
    /\ lastOp = "vibrate"
    /\ act.afterStop
    /\ act.accepted
    /\ Len(vc.syncState.latencyHistory) >= 2

\* C6: a stopVibration() call right after another leaves the controller and
\* the pending callbacks as the first call left them, with isVibrating false.
C6_StopTwice ==
    [][(lastOp = "stop" /\ lastOp' = "stop")
          => (vc' = vc /\ timers' = timers /\ ~vc'.isVibrating)]_vars

\* stopVibration() has run twice in a row on an enabled controller with a
\* callback of an earlier vibration still pending
C6_Witness ==
    /\ lastOp = "stop"
    /\ act.afterStop
    /\ act.stopSent
    /\ vc.isEnabled
    /\ Len(timers) > 0

\* C7 as stated: a callback predictiveVibrate created that was pending when
\* stopVibration() ran never hands its pattern to navigator.vibrate.
C7_StopCancelsPending == ~(act.source = "timer" /\ act.handed /\ act.overStop)

\* C11 as stated: an enabled controller with no pattern accepted in the last
\* 150 ms, given a tick without a beat whose bass is 0.9 when the tick before
\* (also given to the enabled controller) had bass 0.2, attempts a frequency
\* command whose on-duration is min(bass * intensityMultiplier, 1) *
\* maxDuration and at most config.maxDuration.
C11_BassJumpCommand ==
    (/\ lastOp = "process"
     /\ vc.isEnabled
     /\ ~audio.beat.detected
     /\ audio.frequency.bass = 90
     /\ prevAudio.set
     /\ prevAudio.taken
     /\ prevAudio.frequency.bass = 20
     /\ (act.accepted \/ clock - lastAcceptAt >= FrequencyQuietMs))
        => /\ act.attempted
           /\ act.source = "freq"
           /\ act.requested[1] =
                 (Min2(audio.frequency.bass * vc.config.intensityMultiplier, LScale)
                    * vc.config.maxDuration) \div LScale
           /\ act.requested[1] <= vc.config.maxDuration

\* C12: energyHistory never holds more than historySize samples; a
\* detectBeat call that pushes onto a full history drops exactly the oldest
\* sample and keeps the others in order, one that pushes onto a shorter
\* history appends, and a call that does not push leaves the history alone.
C12_HistoryBounded ==
    [][LET old == beatDetection.energyHistory
           new == beatDetection'.energyHistory
           size == beatDetection.historySize
       IN /\ Len(old) <= size
          /\ Len(new) <= size
          /\ (ticks' = ticks + 1 /\ pushed' /\ Len(old) = size)
                => (Len(new) = size /\ SubSeq(new, 1, size - 1) = Tail(old))
          /\ (ticks' = ticks + 1 /\ pushed' /\ Len(old) < size)
                => (Len(new) = Len(old) + 1 /\ SubSeq(new, 1, Len(old)) = old)
          /\ (ticks' = ticks + 1 /\ ~pushed') => new = old]_vars

\* a push onto a full history whose samples differ has evicted the oldest
C12_Witness ==
    /\ pushed
    /\ ticks > beatDetection.historySize + 1
    /\ Len(beatDetection.energyHistory) = beatDetection.historySize
    /\ beatDetection.energyHistory[1] # beatDetection.energyHistory[2]

\* the smallest and the largest sample of the window, and its exact mean
WindowMin == CHOOSE x \in Range(beatDetection.energyHistory) :
                 \A y \in Range(beatDetection.energyHistory) : x <= y
WindowMax == CHOOSE x \in Range(beatDetection.energyHistory) :
                 \A y \in Range(beatDetection.energyHistory) : y <= x
WindowFull == Len(beatDetection.energyHistory) >= beatDetection.historySize

\* C13 as stated: once the statistics of a full window have been computed,
\* variance >= 0 and min(window) <= average <= max(window).
C13_MeanWithinWindow ==
    (WindowFull /\ pushed)
        => /\ beatDetection.variance.n >= 0
           /\ ~RLess(beatDetection.average, RInt(WindowMin))
           /\ ~RLess(RInt(WindowMax), beatDetection.average)

\* C13 amended: variance >= 0, and the average lies between min(window) and
\* max(window) up to the rounding of the sum and the quotient: within a
\* relative error of length * 2^(1 - MantissaBits) of either end.
C13_MeanWithinRounding ==
    (WindowFull /\ pushed)
        => LET len == Len(beatDetection.energyHistory)
               scale == Pow2(MantissaBits)
           IN /\ beatDetection.variance.n >= 0
              /\ ~RLess(beatDetection.average, Rat(WindowMin * (scale - 2 * len), scale))
              /\ ~RLess(Rat(WindowMax * (scale + 2 * len), scale), beatDetection.average)

\* a window of equal samples whose computed average is not the sample
C13_Witness ==
    /\ WindowFull
    /\ pushed
    /\ WindowMin = WindowMax
    /\ beatDetection.average # RInt(WindowMin)

\* C14 as stated: when play() completes, whether for the first time or after
\* a pause, and no analysis frame has run yet, the energy history, the
\* interval list and the latency history are empty and no timer is pending.
C14_NoCarryOver ==
    (lastOp = "playing")
        => /\ beatDetection.energyHistory = <<>>
           /\ beatIntervals = <<>>
           /\ vc.syncState.latencyHistory = <<>>
           /\ timers = <<>>

\* C15 as stated: whenever getAnalysisData is called it returns a result
\* object, zero-valued when the analyzer is not initialised or a computation
\* inside it fails, and never no result.
C15_AlwaysAResult ==
    (lastOp = "frame" /\ app.analysis # "uncalled") => app.analysis = "data"

\* C20: while playback is running, an analysis frame in which
\* getAnalysisData returned no data (not initialised, or an exception caught
\* inside it) leaves the next frame requested: analysisLoopId names a pending
\* callback.
C20_LoopSurvivesFailure ==
    (lastOp = "frame" /\ app.isPlaying /\ app.analysis = "null")
        => (app.analysisLoopId # 0 /\ app.analysisLoopId \in app.frames)

\* a frame whose analysis failed after detectBeat had run, following an
\* earlier frame, with the next frame pending
C20_Witness ==
    /\ lastOp = "frame"
    /\ app.isPlaying
    /\ app.analysis = "null"
    /\ app.audioAnalyzer = "ready"
    /\ beatAt = clock
    /\ ticks >= 2
    /\ app.analysisLoopId \in app.frames

\* C16: while the actuator is unsupported or the controller is disabled, no
\* operation hands a pattern to navigator.vibrate or reports success, an
\* unsupported controller never becomes enabled, and enable() on it returns
\* false.
C16_BlockedHandsNothing ==
    [][/\ (~vc.isSupported \/ ~vc.isEnabled) => (~act'.handed /\ ~act'.accepted)
       /\ ~vc.isSupported => (~vc'.isSupported /\ ~vc'.isEnabled)
       /\ (~vc.isSupported /\ lastOp' = "enable") => ~act'.result]_vars

\* C16 witness: a preset helper called on a supported but disabled controller
\* reached vibrate() and nothing was handed over.
C16_Witness ==
    /\ act.attempted
    /\ act.source = "preset"
    /\ vc.isSupported
    /\ ~vc.isEnabled
    /\ ~act.handed

RLeq(a, b) == ~RLess(b, a)

\* C17 as stated: every pattern handed to navigator.vibrate has at least one
\* entry, and each entry is at least the minimum pulse width and at most
\* config.maxDuration.
C17_PatternWithinLimits ==
    act.handed =>
        /\ Len(act.sent) >= 1
        /\ \A i \in 1..Len(act.sent) :
              /\ RLeq(RInt(MinPulse), act.sent[i])
              /\ RLeq(act.sent[i], RInt(vc.config.maxDuration))

\* C18 as stated: config.latencyCompensation lies in [0, 50] in every state.
C18_CompensationInRange ==
    /\ RLeq(RZero, vc.config.latencyCompensation)
    /\ RLeq(vc.config.latencyCompensation, RInt(MaxCompensation))

\* one latency sample is recorded per pattern navigator.vibrate accepted, and
\* none is dropped before the history holds MaxLatencySamples
AcceptedSoFar == Len(vc.syncState.latencyHistory)

\* C19 as stated: with the default minInterval, no more than 10 patterns are
\* handed to navigator.vibrate within 1000 ms.
C19_AtMostTenPerSecond ==
    (vc.config.minInterval = DefaultMinInterval /\ clock - StartTime < 1000)
        => AcceptedSoFar <= MaxPatternsPerSecond

\* C21: once AudioAnalyzer.init() has thrown on the first play, the analyzer
\* stays uninitialised over every later play, no handler obtains analysis
\* data, the detector's state is left alone and vibrate() is never reached.
C21_FailedInitNoAnalysis ==
    [][app.audioAnalyzer = "failed"
          => /\ app'.audioAnalyzer = "failed"
             /\ app'.analysis # "data"
             /\ ~act'.attempted
             /\ UNCHANGED <<beatDetection, beatIntervals, lastBeatTimestamp, ticks>>]_vars

\* C21 witness: init() failed, playback started all the same, and a frame of
\* the analysis loop ran, got no data and asked for the next frame.
C21_Witness ==
    /\ app.audioAnalyzer = "failed"
    /\ app.isPlaying
    /\ lastOp = "frame"
    /\ app.analysis = "null"
    /\ app.analysisLoopId \in app.frames

\* C22: the interval list never holds more than MaxIntervals entries, each
\* within [beatDetection.minInterval, MaxBeatInterval]; a call of estimateBPM
\* appends the time since the last beat when it is in that range, dropping
\* the oldest entry from a full list, stores nothing otherwise, and sets the
\* last-beat timestamp in either case; other ticks leave the list alone.
C22_IntervalsBounded ==
    [][LET old == beatIntervals
           new == beatIntervals'
           interval == clock' - lastBeatTimestamp
           inRange == /\ lastBeatTimestamp # 0
                      /\ interval >= beatDetection.minInterval
                      /\ interval <= MaxBeatInterval
       IN /\ Len(new) <= MaxIntervals
          /\ \A i \in 1..Len(new) :
                new[i] >= beatDetection.minInterval /\ new[i] <= MaxBeatInterval
          /\ bpmCalled' => lastBeatTimestamp' = clock'
          /\ (bpmCalled' /\ inRange /\ Len(old) = MaxIntervals)
                => new = Append(Tail(old), interval)
          /\ (bpmCalled' /\ inRange /\ Len(old) < MaxIntervals)
                => new = Append(old, interval)
          /\ (~bpmCalled' \/ ~inRange) => new = old]_vars

\* C22 witness: estimateBPM stored an interval in a list that was already
\* full, after an interval above the maximum had been turned away.
C22_Witness ==
    /\ bpmCalled
    /\ ticks > MaxIntervals + 2
    /\ Len(beatIntervals) = MaxIntervals
    /\ beatIntervals[MaxIntervals] = 1200
    /\ beatIntervals[MaxIntervals - 1] = 300
    /\ lastBeatTimestamp - StartTime > SteadyGap * MaxIntervals + 1500 + 2000

\* C23 as stated: a detectBeat call returns detected = true only when the
\* energy history holds historySize samples.
C23_NoBeatBeforeWindowFull ==
    (beat.detected /\ beatAt = clock)
        => Len(beatDetection.energyHistory) >= beatDetection.historySize

\* C24 as stated: every detectBeat call pushes a sample into the energy
\* history, calls inside the cooldown included.
C24_EveryTickPushes == ticks > 0 => pushed

\* C25: a detectBeat call outside the cooldown, on a frame with total energy
\* in[1] and kick-band energy in[2], returns detected = true exactly when
\* energyBeat or kickBeat holds for the average and variance as they stand
\* after the call's update; the type is 'kick' when kickBeat holds and
\* 'energy' when energyBeat holds alone; a detection sets lastBeatTime and
\* calls estimateBPM, and a call without a detection does neither.
C25_Decision ==
    [][\A dt \in TickGaps, in \in EnergyInputs :
          (/\ clock' = clock + dt
           /\ DetectBeatCall(dt, in[1], in[2])
           /\ clock' - beatDetection.lastBeatTime >= beatDetection.minInterval)
             => LET average == beatDetection'.average
                    variance == beatDetection'.variance
                    energyBeat ==
                        /\ 10 * in[1] * average.d > beatDetection.threshold * average.n
                        /\ VarianceFloorInv * variance.n > variance.d * EScale * EScale
                    kickBeat == 10 * in[2] * average.d > KickFactorTenths * average.n
                IN /\ beat'.detected <=> (energyBeat \/ kickBeat)
                   /\ kickBeat => beat'.type = "kick"
                   /\ (energyBeat /\ ~kickBeat) => beat'.type = "energy"
                   /\ beat'.detected
                         => /\ beatDetection'.lastBeatTime = clock'
                            /\ bpmCalled'
                            /\ lastBeatTimestamp' = clock'
                   /\ ~beat'.detected
                         => /\ beatDetection'.lastBeatTime = beatDetection.lastBeatTime
                            /\ ~bpmCalled'
                            /\ lastBeatTimestamp' = lastBeatTimestamp]_vars

\* C25 witness: with the window full, a call after an earlier detection
\* reported a beat of type 'energy' on a frame without kick-band energy.
C25_Witness ==
    /\ beat.detected
    /\ beat.type = "energy"
    /\ beatAt = clock
    /\ nDetected >= 2
    /\ Len(beatDetection.energyHistory) = beatDetection.historySize

\* C26 as stated: the flux a tick computes is the normalised sum of the
\* positive differences between the frame this tick read and the frame the
\* tick before it read.
C26_FluxAgainstPreviousFrame ==
    spectrum.reads >= 1
        => spectrum.flux = CalculateSpectralFlux(spectrum.frequencyData, spectrum.lastFrame)

RECURSIVE RangeSum(_, _, _, _)
\* the sum (in bytes) and the count of the bins from i up to last whose
\* frequency lies in range
RangeSum(data, range, i, last) ==
    IF i > last THEN [sum |-> 0, count |-> 0]
    ELSE IF i = last
    THEN (IF InRange(i, range) THEN [sum |-> Bin(data, i), count |-> 1]
          ELSE [sum |-> 0, count |-> 0])
    ELSE LET half == (i + last) \div 2
             lower == RangeSum(data, range, i, half)
             upper == RangeSum(data, range, half + 1, last)
         IN [sum |-> lower.sum + upper.sum, count |-> lower.count + upper.count]

\* the mean magnitude of all bins of the frame whose frequency lies in range
RangeMean(data, range) ==
    LET t == RangeSum(data, range, 0, Len(data) - 1)
    IN IF t.count > 0 THEN Rat(t.sum, ByteMax * t.count) ELSE RZero

\* C27 as stated: each band level a tick reports is the mean magnitude of all
\* bins of the frame in the band's configured range, 0 for a band without bins.
C27_BandMeans ==
    spectrum.reads >= 1
        => /\ spectrum.frequency.bass = RangeMean(spectrum.frequencyData, BassRange)
           /\ spectrum.frequency.mid = RangeMean(spectrum.frequencyData, MidRange)
           /\ spectrum.frequency.treble = RangeMean(spectrum.frequencyData, TrebleRange)

\* C28 as stated: on a tick without a beat, outside the 150 ms after the
\* last accepted pattern, detectFrequencyChange reports a change exactly when
\* the bass or treble level moved by more than its delta since the tick
\* directly before and is above its floor.
C28_AgainstPrecedingTick ==
    (/\ lastOp = "process"
     /\ vc.isEnabled
     /\ ~audio.beat.detected
     /\ prevAudio.set
     /\ prevAudio.taken
     /\ (act.accepted \/ clock - lastAcceptAt >= FrequencyQuietMs))
        => (act.freqChange
              <=> \/ /\ Abs(audio.frequency.bass - prevAudio.frequency.bass) > BassDelta
                     /\ audio.frequency.bass > BassFloor
                  \/ /\ Abs(audio.frequency.treble - prevAudio.frequency.treble) > TrebleDelta
                     /\ audio.frequency.treble > TrebleFloor)

\* C29 as stated: on a tick without a beat and without a frequency change,
\* more than 200 ms after the last accepted pattern and with no vibration in
\* progress, a volume level above 0.7 that rose by more than 0.3 since the
\* tick before makes the controller attempt [floor(level * 150), 50].
C29_VolumeSwellPulse ==
    (/\ lastOp = "process"
     /\ vc.isEnabled
     /\ ~audio.beat.detected
     /\ ~act.freqChange
     /\ prevAudio.set
     /\ prevAudio.taken
     /\ audio.volume.level - prevAudio.volume.level > VolumeDelta
     /\ audio.volume.level > VolumeFloor
     /\ (act.accepted \/ ~vc.isVibrating)
     /\ (act.accepted \/ clock - lastAcceptAt >= VolumeQuietMs))
        => /\ act.attempted
           /\ act.source = "vol"
           /\ act.requested = <<(audio.volume.level * VolumePulseMs) \div LScale, 50>>

\* C30: for a detected beat the enabled controller requests, before
\* compensation: [300,50] for a kick stronger than 0.8 and [200,50] for any
\* other kick; for other beats [350,50] above strength 0.8, [200,50] above
\* 0.5 and [120,30] otherwise; and when bpm > 0 and 60000/bpm < 400 the
\* on-duration is the smaller of that and 80, the off-duration as it was.
C30_BeatPatternChoice ==
    (lastOp = "process" /\ vc.isEnabled /\ audio.beat.detected)
        => LET b == audio.beat
               strong == RLess(Rat(8, 10), b.strength)
               medium == RLess(Rat(5, 10), b.strength)
               base == IF b.type = "kick"
                       THEN (IF strong THEN <<300, 50>> ELSE <<200, 50>>)
                       ELSE IF strong THEN <<350, 50>>
                       ELSE IF medium THEN <<200, 50>>
                       ELSE <<120, 30>>
               fast == b.bpm > 0 /\ 60000 < 400 * b.bpm
           IN /\ act.attempted
              /\ act.source = "beat"
              /\ act.requested = IF fast THEN <<Min2(base[1], 80), base[2]>> ELSE base

\* C30 witness: a kick of strength 0.9 at 180 BPM was shortened to [80, 50]
\* and handed over.
C30_Witness ==
    /\ lastOp = "process"
    /\ vc.isEnabled
    /\ audio.beat.detected
    /\ audio.beat.type = "kick"
    /\ audio.beat.strength = Rat(9, 10)
    /\ audio.beat.bpm = 180
    /\ act.requested = <<80, 50>>
    /\ act.handed

\* C31: whenever a pattern is handed to the actuator it is the requested
\* pattern with its first on-duration replaced by max(10, first -
\* latencyCompensation) and every later entry as requested, under every
\* configuration, adaptiveSync off included.
C31_FirstOnShortened ==
    [][(act'.handed /\ Len(act'.requested) > 0)
          => act'.sent =
                [i \in 1..Len(act'.requested) |->
                    IF i = 1
                    THEN RMax(RInt(10), RSub(RInt(act'.requested[1]),
                                             vc.config.latencyCompensation))
                    ELSE RInt(act'.requested[i])]]_vars

\* C32: a successful dispatch records one latency sample and leaves
\* avgLatency at the mean of the samples held; latencyCompensation becomes
\* avgLatency clamped to 0..50 when adaptiveSync is on and at least 10
\* samples are held, and keeps its value otherwise.
C32_SyncStats ==
    [][act'.accepted
          => LET h == vc.syncState.latencyHistory
                 g == vc'.syncState.latencyHistory
                 avg == vc'.syncState.avgLatency
                 kept == IF Len(h) < 20 THEN h ELSE Tail(h)
                 clamped == IF avg.n < 0 THEN RInt(0)
                            ELSE IF avg.n > 50 * avg.d THEN RInt(50) ELSE avg
             IN /\ Len(g) = Len(kept) + 1
                /\ SubSeq(g, 1, Len(kept)) = kept
                /\ avg.n * Len(g) = SumSeq(g) * avg.d
                /\ vc'.config.latencyCompensation =
                      IF vc.config.adaptiveSync /\ Len(g) >= 10
                      THEN clamped ELSE vc.config.latencyCompensation]_vars

\* C32 witness: the tenth sample brought the mean to 60 and the compensation
\* to its upper limit 50.
C32_Witness ==
    /\ lastOp = "vibrate"
    /\ act.accepted
    /\ vc.config.adaptiveSync
    /\ Len(vc.syncState.latencyHistory) = 10
    /\ vc.syncState.avgLatency = RInt(60)
    /\ vc.config.latencyCompensation = RInt(50)

\* C33: latencyHistory never holds more than 20 samples, and a sample
\* recorded when 20 are held pushes the oldest one out.
C33_LatencyHistoryBounded ==
    /\ [](Len(vc.syncState.latencyHistory) <= 20)
    /\ [][(act'.accepted /\ Len(vc.syncState.latencyHistory) = 20)
             => /\ Len(vc'.syncState.latencyHistory) = 20
                /\ \A i \in 1..19 :
                      vc'.syncState.latencyHistory[i] = vc.syncState.latencyHistory[i + 1]]_vars

\* C33 witness: twenty samples of 3, 3, ..., 3, 60, 0 are held, which they
\* are only after a first sample has been pushed out by the 21st.
C33_Witness ==
    /\ lastOp = "vibrate"
    /\ act.accepted
    /\ Len(vc.syncState.latencyHistory) = 20
    /\ vc.syncState.latencyHistory[1] = 3
    /\ vc.syncState.latencyHistory[19] = 60
    /\ vc.syncState.latencyHistory[20] = 0

\* C34: predictiveVibrate for a timestamp later than now sets one callback
\* due after max(0, t - now - predictedLatency) ms, predictedLatency being the
\* average latency whenever latency history exists and 20 ms only when none
\* exists.
C34_PredictedLatency ==
    [][(lastOp' = "predictive" /\ Len(timers') = Len(timers) + 1)
          => LET predicted == IF vc.syncState.latencyHistory = <<>>
                              THEN RInt(20) ELSE vc.syncState.avgLatency
             IN \E target \in SchedTargets :
                   /\ target > 0
                   /\ timers'[Len(timers')].kind = "vibrate"
                   /\ timers'[Len(timers')].due =
                         clock + RFloor(RMax(RZero, RSub(RInt(target), predicted)))]_vars

\* the treble half of the frequency detector's test on this tick and the tick
\* before
TrebleTransient ==
    /\ prevAudio.set
    /\ Abs(audio.frequency.treble - prevAudio.frequency.treble) > TrebleDelta
    /\ audio.frequency.treble > TrebleFloor

\* C35: a processAudioData call makes at most one dispatch attempt, and on a
\* tick without a detected beat, without a frequency transient and without a
\* volume swell against the tick before it makes none and leaves
\* lastVibrationTime, isVibrating and the latency history as they were.
C35_QuietTickNoAttempt ==
    [][lastOp' = "process"
          => /\ act'.attempts <= 1
             /\ (~audio'.beat.detected /\ ~FrequencyTransient' /\ ~TrebleTransient'
                    /\ ~VolumeSwell')
                  => /\ ~act'.attempted
                     /\ vc'.lastVibrationTime = vc.lastVibrationTime
                     /\ vc'.isVibrating = vc.isVibrating
                     /\ vc'.syncState.latencyHistory = vc.syncState.latencyHistory]_vars

\* C36: isVibrating is true at every moment at which the pattern last
\* dispatched is still playing, pauses included, and so a volume-swell pulse
\* is never handed over while an earlier pattern is still playing.
C36_FlagWhilePlaying ==
    /\ [](RLess(RInt(clock), playingUntil) => vc.isVibrating)
    /\ [][(act'.source = "vol" /\ act'.handed)
             => ~RLess(RInt(clock'), playingUntil)]_vars

\* C37: a vibrate() call that does not dispatch (controller disabled or
\* unsupported, rate limit not elapsed, or the actuator returning false)
\* returns false, leaves lastVibrationTime, isVibrating, latencyHistory,
\* avgLatency and latencyCompensation unchanged, and creates no timer.
C37_NoDispatchNoEffect ==
    [][(lastOp' \in {"vibrate", "timer"} /\ act'.attempted /\ ~act'.accepted)
          => /\ ~act'.result
             /\ vc'.lastVibrationTime = vc.lastVibrationTime
             /\ vc'.isVibrating = vc.isVibrating
             /\ vc'.syncState = vc.syncState
             /\ vc'.config.latencyCompensation = vc.config.latencyCompensation
             /\ IF lastOp' = "vibrate" THEN timers' = timers
                ELSE Len(timers') = Len(timers) - 1]_vars

\* C37 witness: the actuator returned false to a direct vibrate() call made
\* while an earlier pattern was flagged as playing and its timer pending.
C37_Witness ==
    /\ lastOp = "vibrate"
    /\ act.handed
    /\ ~act.accepted
    /\ ~act.result
    /\ vc.isVibrating
    /\ Len(timers) = 1
    /\ Len(vc.syncState.latencyHistory) = 1

\* C38: once disable() has run no pattern reaches the actuator until enable()
\* is called again, callbacks set earlier by predictiveVibrate included; and
\* a dispatch scheduled before disable() is not delivered after a later
\* enable().
C38_DisableCancelsScheduled ==
    /\ act.handed => vc.isEnabled
    /\ ~(act.source = "timer" /\ act.handed /\ act.overDisable)

\* C39: under any interleaving of play(), pause(), the ended and error
\* events and animation-frame callbacks at most one analysis-loop callback is
\* pending, none is pending while state.isPlaying is false, and whenever
\* play() completes successfully the loop is running: a callback is pending
\* and analysisLoopId names it.
C39_OneLoop ==
    /\ Cardinality(app.frames) <= 1
    /\ ~app.isPlaying => app.frames = {}
    /\ lastOp = "playing" => (app.isPlaying /\ app.frames = {app.analysisLoopId})

\* C39 witness: play() completed a second time after the loop had run and
\* been stopped, and started the loop again.
C39_Witness ==
    /\ lastOp = "playing"
    /\ app.isPlaying
    /\ app.analysisLoopId = 3
    /\ app.frames = {3}

\* C40: the callback handlePageVisible sets starts playback only if playback
\* is still paused because the page was hidden; once the user has paused
\* after the page became visible it starts nothing.
C40_ResumeOnlyIfHiddenPaused ==
    [][(lastOp' = "resume" /\ app'.playing > app.playing)
          => (~app.isPlaying /\ app.pausedBy = "hidden")]_vars

\* C8: the BPM estimateBPM returns is an integer in [60,200] when at least 4
\* intervals have been accepted and 0 when fewer have; a BeatEvent never
\* carries any other value.
C8_BpmRange ==
    /\ bpmCalled =>
          IF Len(beatIntervals) >= 4 THEN beat.bpm \in 60..200 ELSE beat.bpm = 0
    /\ beat.bpm \in {0} \cup 60..200

\* a tempo slower than 60 BPM (four intervals of 1200 ms) reported as 60
C8_Witness ==
    /\ bpmCalled
    /\ beatIntervals = <<1200, 1200, 1200, 1200>>
    /\ beat.bpm = 60

\* C9 as stated: starting from an empty estimator, the fourth of four beats
\* spaced 500 ms apart reports 120 BPM.
C9_FourBeats120 ==
    (nDetected = 4 /\ beat.detected /\ beatIntervals = <<500, 500, 500>>)
        => beat.bpm = 120

\* C9 amended: four beats spaced 500 ms apart give three intervals and the
\* fourth beat reports 0; the fifth beat (four intervals) reports 120.
C9_FiveBeats120 ==
    /\ (nDetected = 4 /\ beat.detected /\ beatIntervals = <<500, 500, 500>>)
          => beat.bpm = 0
    /\ (nDetected = 5 /\ beat.detected /\ beatIntervals = <<500, 500, 500, 500>>)
          => beat.bpm = 120

\* the fifth of five beats spaced 500 ms apart
C9_Witness ==
    nDetected = 5 /\ beat.detected /\ beatIntervals = <<500, 500, 500, 500>>

\* The spike fed at tick historySize + 1 (the newest sample of the window),
\* and whether a window of historySize - 1 zeros and that spike has a
\* variance above 0.01.
SpikeEnergy == beatDetection.energyHistory[Len(beatDetection.energyHistory)]
SpikeWindow == [i \in 1..DefaultHistorySize |-> IF i = DefaultHistorySize THEN SpikeEnergy ELSE 0]
SpikeVarianceAboveFloor ==
    VarianceFloorInv * SumSqDev(SpikeWindow, DefaultHistorySize, SpikeEnergy)
        > DefaultHistorySize * DefaultHistorySize * DefaultHistorySize * EScale * EScale

\* C10: 43 silent ticks detect nothing; a spike without kick-band content
\* that leaves the variance above 0.01 is detected with type 'energy', the
\* only detection overall; the same spike 100 ms later is not detected.
C10_SpikeScenario ==
    /\ ticks <= DefaultHistorySize => nDetected = 0
    /\ (ticks = DefaultHistorySize + 1 /\ SpikeVarianceAboveFloor)
          => beat.detected /\ beat.type = "energy" /\ nDetected = 1
    /\ (ticks = DefaultHistorySize + 2 /\ SpikeVarianceAboveFloor)
          => ~beat.detected /\ nDetected = 1

\* the second spike has been fed after a first one that raised the variance
C10_Witness ==
    /\ ticks = DefaultHistorySize + 2
    /\ SpikeVarianceAboveFloor
    /\ beatAt - lastDetectAt \in SecondSpikeGaps

====
